---------------------------- MODULE Spec2Model ----------------------------
(***************************************************************************)
(* Build Invoker and Build-Output Parser of the Spring integration-test    *)
(* MCP server (index.ts): validateMavenCompile and runTestCheckpoint run   *)
(* Maven through the promisified child_process.exec and turn the captured  *)
(* console text into a structured outcome.                                 *)
(*                                                                         *)
(* Text is modelled character by character: a text is a sequence of        *)
(* one-character strings, so that the regular expressions, the tails       *)
(* (slice(-500), slice(-1000)), trim() and parseInt() of the source are    *)
(* computed as the source computes them.                                   *)
(***************************************************************************)
EXTENDS Naturals, Sequences, FiniteSets

(***************************************************************************)
(* Bounds of the model.                                                    *)
(***************************************************************************)
\* number of chunks the subprocess writes (stdout and stderr together)
MaxChunks == 2
\* length of the long filler line a subprocess may write
FillLen == 600
\* number of "[ERROR] e<k>" lines in one chunk of compiler errors
ErrBlockLines == 6
\* number of failure blocks in one chunk of a surefire report
BlocksPerChunk == 3
\* length of the long first excerpt of a chunk of failure blocks
LongExcerptLen == 250

(***************************************************************************)
(* Program constants.                                                      *)
(***************************************************************************)
COMPILE_TIMEOUT == 180000
TEST_TIMEOUT == 120000
MAX_ERRORS == 10
MAX_FAILURE_MESSAGES == 5
FAILURE_MESSAGE_CHARS == 200
UNPARSEABLE_TAIL == 500
FAILED_TAIL == 1000

MSG_BUILD_SUCCESS == "BUILD SUCCESS"    \* preceded by a check mark in the source
MSG_BUILD_FAILED == "BUILD FAILED"      \* preceded by a cross in the source
REC_PROCEED == "Proceed to writing tests"
REC_FIX_COMPILE == "Fix compilation errors before writing tests"
MSG_COULD_NOT_PARSE == "Could not parse test results"
MSG_TEST_EXECUTION_FAILED == "Test execution failed"
REC_TESTS_PASSED == "Tests passed - continue to next batch"
REC_FIX_FAILURES == "Fix failures before continuing"

(***************************************************************************)
(* Literals of the source, as texts.                                       *)
(***************************************************************************)
BUILD_SUCCESS ==
    <<"B", "U", "I", "L", "D", " ", "S", "U", "C", "C", "E", "S", "S">>

ERROR_MARKER ==
    <<"[", "E", "R", "R", "O", "R", "]">>

TESTS_RUN ==
    <<"T", "e", "s", "t", "s", " ", "r", "u", "n", ":", " ">>

FAILURES_SEP ==
    <<",", " ", "F", "a", "i", "l", "u", "r", "e", "s", ":", " ">>

ERRORS_SEP ==
    <<",", " ", "E", "r", "r", "o", "r", "s", ":", " ">>

SKIPPED_SEP ==
    <<",", " ", "S", "k", "i", "p", "p", "e", "d", ":", " ">>

FAILURE_MARKER ==
    <<"<", "<", "<", " ", "F", "A", "I", "L", "U", "R", "E", "!">>

LA_BLANK ==
    <<"\n", "\n">>

LA_TESTS_RUN ==
    <<"\n", "T", "e", "s", "t", "s", " ", "r", "u", "n", ":">>

(***************************************************************************)
(* Character classes of JavaScript regular expressions and of trim().      *)
(***************************************************************************)
\* \s and the characters trim() strips
IsSpace(c) == c \in {" ", "\n", "\t", "\r", "\f"}

\* what "." does not match
IsLineTerminator(c) == c \in {"\n", "\r"}

\* \d
IsDigit(c) == c \in {"0", "1", "2", "3", "4", "5", "6", "7", "8", "9"}

DigitValue(c) ==
    CASE c = "0" -> 0 [] c = "1" -> 1 [] c = "2" -> 2 [] c = "3" -> 3
      [] c = "4" -> 4 [] c = "5" -> 5 [] c = "6" -> 6 [] c = "7" -> 7
      [] c = "8" -> 8 [] c = "9" -> 9

(***************************************************************************)
(* String primitives.                                                      *)
(***************************************************************************)
Min(S) == CHOOSE x \in S : \A y \in S : x <= y

Max(S) == CHOOSE x \in S : \A y \in S : x >= y

\* the literal lit occurs in t at position i
MatchAt(t, i, lit) ==
    /\ i >= 1
    /\ i + Len(lit) - 1 <= Len(t)
    /\ \A k \in 1..Len(lit) : t[i + k - 1] = lit[k]

\* String.prototype.includes
Includes(t, lit) == \E i \in 1..Len(t) : MatchAt(t, i, lit)

\* t.slice(0, n)
SliceFirst(t, n) == IF Len(t) <= n THEN t ELSE SubSeq(t, 1, n)

\* t.slice(-n)
SliceLast(t, n) == IF Len(t) <= n THEN t ELSE SubSeq(t, Len(t) - n + 1, Len(t))

\* String.prototype.trim
Trim(t) ==
    LET keep == {i \in 1..Len(t) : ~IsSpace(t[i])}
    IN  IF keep = {} THEN <<>> ELSE SubSeq(t, Min(keep), Max(keep))

\* the position after the longest run of white space starting at j (\s+)
RECURSIVE SpaceRunEnd(_, _)
SpaceRunEnd(t, j) ==
    IF j > Len(t) \/ ~IsSpace(t[j]) THEN j ELSE SpaceRunEnd(t, j + 1)

\* the position after the longest run of digits starting at j (\d+)
RECURSIVE DigitRunEnd(_, _)
DigitRunEnd(t, j) ==
    IF j > Len(t) \/ ~IsDigit(t[j]) THEN j ELSE DigitRunEnd(t, j + 1)

\* the first line terminator at or after k, or Len(t) + 1
LineEnd(t, k) ==
    LET ends == {m \in k..Len(t) : IsLineTerminator(t[m])}
    IN  IF ends = {} THEN Len(t) + 1 ELSE Min(ends)

\* parseInt of a run of decimal digits
RECURSIVE ParseInt(_)
ParseInt(digits) ==
    IF digits = <<>> THEN 0
    ELSE 10 * ParseInt(SubSeq(digits, 1, Len(digits) - 1))
           + DigitValue(digits[Len(digits)])


(***************************************************************************)
(* /\[ERROR\]\s+(.+)/g run with exec() until it returns null: the captures *)
(* of the successive matches, each search starting at lastIndex.           *)
(* \s+ is greedy and gives characters back until (.+) can start on a       *)
(* character that is not a line terminator; (.+) runs to the end of line.  *)
(***************************************************************************)
ErrorGroupStart(t, i) ==
    LET ws == i + Len(ERROR_MARKER)
        e == SpaceRunEnd(t, ws)
        cands == {k \in (ws + 1)..e : k <= Len(t) /\ ~IsLineTerminator(t[k])}
    IN  IF cands = {} THEN 0 ELSE Max(cands)

ErrorPatternAt(t, i) == MatchAt(t, i, ERROR_MARKER) /\ ErrorGroupStart(t, i) # 0

RECURSIVE ErrorPatternMatches(_, _)
ErrorPatternMatches(t, from) ==
    LET starts == {i \in from..Len(t) : ErrorPatternAt(t, i)}
    IN  IF starts = {} THEN <<>>
        ELSE LET k == ErrorGroupStart(t, Min(starts))
                 e == LineEnd(t, k)
             IN  <<SubSeq(t, k, e - 1)>> \o ErrorPatternMatches(t, e)

(***************************************************************************)
(* /Tests run: (\d+), Failures: (\d+), Errors: (\d+), Skipped: (\d+)/      *)
(* String.prototype.match without the g flag: the leftmost match.          *)
(***************************************************************************)
TestsRunGroups(t, i) ==
    LET a1 == i + Len(TESTS_RUN)
        b1 == DigitRunEnd(t, a1)
        a2 == b1 + Len(FAILURES_SEP)
        b2 == DigitRunEnd(t, a2)
        a3 == b2 + Len(ERRORS_SEP)
        b3 == DigitRunEnd(t, a3)
        a4 == b3 + Len(SKIPPED_SEP)
        b4 == DigitRunEnd(t, a4)
    IN  [run |-> <<a1, b1>>, failures |-> <<a2, b2>>,
         errors |-> <<a3, b3>>, skipped |-> <<a4, b4>>]

TestsRunPatternAt(t, i) ==
    /\ MatchAt(t, i, TESTS_RUN)
    /\ LET g == TestsRunGroups(t, i)
       IN  /\ g.run[2] > g.run[1]
           /\ MatchAt(t, g.run[2], FAILURES_SEP)
           /\ g.failures[2] > g.failures[1]
           /\ MatchAt(t, g.failures[2], ERRORS_SEP)
           /\ g.errors[2] > g.errors[1]
           /\ MatchAt(t, g.errors[2], SKIPPED_SEP)
           /\ g.skipped[2] > g.skipped[1]

\* the positions at which the pattern matches
TestsRunStarts(t) == {i \in 1..Len(t) : TestsRunPatternAt(t, i)}

\* match[1..4] of the match at i
TestsRunMatch(t, i) ==
    LET g == TestsRunGroups(t, i)
    IN  [run |-> SubSeq(t, g.run[1], g.run[2] - 1),
         failures |-> SubSeq(t, g.failures[1], g.failures[2] - 1),
         errors |-> SubSeq(t, g.errors[1], g.errors[2] - 1),
         skipped |-> SubSeq(t, g.skipped[1], g.skipped[2] - 1)]

(***************************************************************************)
(* /<<< FAILURE![^>]*\n([\s\S]*?)(?=\n\n|\nTests run:)/g run with exec()   *)
(* until it returns null.  [^>]* is greedy and crosses line ends: it ends  *)
(* at the last newline before the next ">" from which the lazy group can   *)
(* still reach a lookahead position; the group then ends at the first      *)
(* such position.  lastIndex is the lookahead position (not consumed).     *)
(***************************************************************************)
LookaheadAt(t, p) == MatchAt(t, p, LA_BLANK) \/ MatchAt(t, p, LA_TESTS_RUN)

FailureGroup(t, s) ==
    LET a == s + Len(FAILURE_MARKER)
        gts == {k \in a..Len(t) : t[k] = ">"}
        g == IF gts = {} THEN Len(t) + 1 ELSE Min(gts)
        las == {p \in (a + 1)..Len(t) : LookaheadAt(t, p)}
        nls == {k \in a..(g - 1) : t[k] = "\n" /\ \E p \in las : p >= k + 1}
    IN  IF nls = {} THEN <<0, 0>>
        ELSE <<Max(nls) + 1, Min({p \in las : p >= Max(nls) + 1})>>

FailurePatternAt(t, s) ==
    MatchAt(t, s, FAILURE_MARKER) /\ FailureGroup(t, s)[1] # 0

RECURSIVE FailurePatternMatches(_, _)
FailurePatternMatches(t, from) ==
    LET starts == {s \in from..Len(t) : FailurePatternAt(t, s)}
    IN  IF starts = {} THEN <<>>
        ELSE LET g == FailureGroup(t, Min(starts))
             IN  <<SubSeq(t, g[1], g[2] - 1)>> \o FailurePatternMatches(t, g[2])


(***************************************************************************)
(* validateMavenCompile.                                                   *)
(***************************************************************************)
\* const success = stdout.includes("BUILD SUCCESS")
CompileSuccess(out) == Includes(out, BUILD_SUCCESS)

\* the while loop pushing match[1] of every [ERROR] match of stderr
CompileErrors(err) == ErrorPatternMatches(err, 1)

\* the body of the try block once exec has resolved with {stdout, stderr}
CompileResolved(out, err) ==
    LET success == CompileSuccess(out)
        errors == IF ~success THEN CompileErrors(err) ELSE <<>>
    IN  [success |-> success,
         message |-> IF success THEN MSG_BUILD_SUCCESS ELSE MSG_BUILD_FAILED,
         errors |-> SliceFirst(errors, MAX_ERRORS),
         recommendation |-> IF success THEN REC_PROCEED ELSE REC_FIX_COMPILE]

\* a catch block that classifies by the sentinel, whatever the exit status
CompileRejectedBySentinel(e) ==
    LET out == IF e.hasOutput THEN e.stdout ELSE <<>>
        err == IF e.hasOutput THEN e.stderr ELSE <<>>
    IN  CompileResolved(out, err)

\* the catch block; e is the rejection: error.stderr || ""
CompileRejected(e) ==
    LET err == IF e.hasOutput THEN e.stderr ELSE <<>>
    IN  [success |-> FALSE,
         message |-> MSG_BUILD_FAILED,
         errors |-> SliceFirst(CompileErrors(err), MAX_ERRORS),
         recommendation |-> REC_FIX_COMPILE]

(***************************************************************************)
(* runTestCheckpoint.                                                      *)
(***************************************************************************)
\* failures === "0" && errors === "0": a comparison of the matched strings
TestSuccess(m) == m.failures = <<"0">> /\ m.errors = <<"0">>

\* an excerpt that is trimmed and not cut
FailureExcerptUncut(capture) == Trim(capture)

\* failMatch[1].trim().slice(0, 200)
FailureExcerpt(capture) == SliceFirst(Trim(capture), FAILURE_MESSAGE_CHARS)

\* the while loop pushing the excerpt of every failure match of output
FailureMessages(output) ==
    LET caps == FailurePatternMatches(output, 1)
    IN  [i \in 1..Len(caps) |-> FailureExcerpt(caps[i])]

\* an unparseable result that carries the whole output
TestUnparseableWholeOutput(output) ==
    [success |-> FALSE,
     message |-> MSG_COULD_NOT_PARSE,
     output |-> output]

\* the return of the branch "if (!match)"
TestUnparseable(output) ==
    [success |-> FALSE,
     message |-> MSG_COULD_NOT_PARSE,
     output |-> SliceLast(output, UNPARSEABLE_TAIL)]

\* the return once the summary has matched
TestStructured(output, m) ==
    LET success == TestSuccess(m)
        failureMessages == IF ~success THEN FailureMessages(output) ELSE <<>>
    IN  [success |-> success,
         testsRun |-> ParseInt(m.run),
         failures |-> ParseInt(m.failures),
         errors |-> ParseInt(m.errors),
         skipped |-> ParseInt(m.skipped),
         failureMessages |-> SliceFirst(failureMessages, MAX_FAILURE_MESSAGES),
         recommendation |-> IF success THEN REC_TESTS_PASSED ELSE REC_FIX_FAILURES]

\* a try block that reads the last summary line of the output
TestResolvedFromLastSummary(out, err) ==
    LET output == out \o err
        starts == TestsRunStarts(output)
    IN  IF starts = {} THEN TestUnparseable(output)
        ELSE TestStructured(output,
                 TestsRunMatch(output, CHOOSE i \in starts : \A j \in starts : j <= i))

\* the body of the try block once exec has resolved with {stdout, stderr}
TestResolved(out, err) ==
    LET output == out \o err
        starts == TestsRunStarts(output)
    IN  IF starts = {} THEN TestUnparseable(output)
        ELSE TestStructured(output, TestsRunMatch(output, Min(starts)))

\* what escapes the catch block: undefined + undefined is NaN, and NaN has
\* no slice method
Thrown == [thrown |-> "TypeError"]

\* a catch block that answers with the message of the unparseable result
TestRejectedAsUnparseable(e) ==
    IF ~e.hasOutput THEN Thrown
    ELSE [success |-> FALSE,
          message |-> MSG_COULD_NOT_PARSE,
          output |-> SliceLast(e.stdout \o e.stderr, FAILED_TAIL)]

\* the catch block; e is the rejection.  A rejection that exec did not
\* decorate has neither stdout nor stderr.
TestRejected(e) ==
    IF ~e.hasOutput THEN Thrown
    ELSE [success |-> FALSE,
          message |-> MSG_TEST_EXECUTION_FAILED,
          output |-> SliceLast(e.stdout \o e.stderr, FAILED_TAIL)]

(***************************************************************************)
(* What a Maven subprocess may write, chunk by chunk.                      *)
(***************************************************************************)
INFO_BUILD_SUCCESS ==
    <<"[", "I", "N", "F", "O", "]", " ", "B", "U", "I", "L", "D", " ", "S",
      "U", "C", "C", "E", "S", "S", "\n">>

INFO_COMPILING ==
    <<"[", "I", "N", "F", "O", "]", " ", "C", "o", "m", "p", "i", "l", "i",
      "n", "g", "\n">>

BLANK_ERROR_LINE ==
    <<"[", "E", "R", "R", "O", "R", "]", " ", "\n">>

SUMMARY_PASSED ==
    <<"T", "e", "s", "t", "s", " ", "r", "u", "n", ":", " ", "5", ",", " ",
      "F", "a", "i", "l", "u", "r", "e", "s", ":", " ", "0", ",", " ", "E",
      "r", "r", "o", "r", "s", ":", " ", "0", ",", " ", "S", "k", "i", "p",
      "p", "e", "d", ":", " ", "0", "\n">>

SUMMARY_FAILED ==
    <<"T", "e", "s", "t", "s", " ", "r", "u", "n", ":", " ", "5", ",", " ",
      "F", "a", "i", "l", "u", "r", "e", "s", ":", " ", "2", ",", " ", "E",
      "r", "r", "o", "r", "s", ":", " ", "0", ",", " ", "S", "k", "i", "p",
      "p", "e", "d", ":", " ", "0", "\n">>

SUMMARY_ERRORS ==
    <<"T", "e", "s", "t", "s", " ", "r", "u", "n", ":", " ", "1", "2", ",",
      " ", "F", "a", "i", "l", "u", "r", "e", "s", ":", " ", "0", ",", " ",
      "E", "r", "r", "o", "r", "s", ":", " ", "1", ",", " ", "S", "k", "i",
      "p", "p", "e", "d", ":", " ", "3", "\n">>

SUMMARY_PADDED ==
    <<"T", "e", "s", "t", "s", " ", "r", "u", "n", ":", " ", "0", "7", ",",
      " ", "F", "a", "i", "l", "u", "r", "e", "s", ":", " ", "0", "0", ",",
      " ", "E", "r", "r", "o", "r", "s", ":", " ", "0", ",", " ", "S", "k",
      "i", "p", "p", "e", "d", ":", " ", "0", "\n">>

ERROR_PREFIX ==
    <<"[", "E", "R", "R", "O", "R", "]", " ", "e">>

REPORT_TAIL ==
    <<",", " ", "E", "r", "r", "o", "r", "s", ":", " ", "0", ",", " ", "S",
      "k", "i", "p", "p", "e", "d", ":", " ", "0", " ", "<", "<", "<", " ",
      "F", "A", "I", "L", "U", "R", "E", "!", "\n">>

BLOCK_MARK ==
    <<" ", "<", "<", "<", " ", "F", "A", "I", "L", "U", "R", "E", "!",
      "\n">>

Repeat(c, n) == [i \in 1..n |-> c]

RECURSIVE NumText(_)
NumText(n) ==
    LET d == <<"0", "1", "2", "3", "4", "5", "6", "7", "8", "9">>
    IN  IF n < 10 THEN <<d[n + 1]>> ELSE NumText(n \div 10) \o <<d[(n % 10) + 1]>>

\* "[ERROR] e1\n[ERROR] e2\n ... [ERROR] e<n>\n"
RECURSIVE ErrorLines(_)
ErrorLines(n) ==
    IF n = 0 THEN <<>>
    ELSE ErrorLines(n - 1) \o ERROR_PREFIX \o NumText(n) \o <<"\n">>

\* "t<k> <<< FAILURE!\nm<k>> yyy...\n\n": the first excerpt of a report is long
FailureBlock(k) ==
    <<"t">> \o NumText(k) \o BLOCK_MARK \o <<"m">> \o NumText(k) \o <<">", " ">>
      \o (IF k = 1 THEN Repeat("y", LongExcerptLen) ELSE <<>>) \o LA_BLANK

RECURSIVE FailureBlocks(_)
FailureBlocks(n) ==
    IF n = 0 THEN <<>> ELSE FailureBlocks(n - 1) \o FailureBlock(n)

\* a surefire class report: its own summary line, then one block per failure
FailureReport ==
    TESTS_RUN \o NumText(BlocksPerChunk) \o FAILURES_SEP \o NumText(BlocksPerChunk)
      \o REPORT_TAIL \o FailureBlocks(BlocksPerChunk)

Filler == Repeat("x", FillLen) \o <<"\n">>

CompileChunks ==
    {INFO_BUILD_SUCCESS, INFO_COMPILING, BLANK_ERROR_LINE, ErrorLines(ErrBlockLines)}

TestChunks ==
    {SUMMARY_PASSED, SUMMARY_FAILED, SUMMARY_ERRORS, SUMMARY_PADDED,
     FailureReport, Filler}

(***************************************************************************)
(* One build operation, from the call to its return.                       *)
(***************************************************************************)
VARIABLES
    pc,         \* idle, spawning, running, killed, settled, done
    op,         \* none, compile, test
    timeout,    \* the timeout option given to exec, in ms
    execCalls,  \* how many times the operation has called exec
    killed,     \* the timer of exec has expired and called child.kill()
    chunks,     \* number of chunks written so far
    stdout,     \* captured so far
    stderr,     \* captured so far
    settle,     \* pending, or how the promise of exec settled
    result      \* what the operation returned (or threw)

vars == <<pc, op, timeout, execCalls, killed, chunks, stdout, stderr, settle, result>>

\* The extractors (further below) share pc, op and result with the build
\* operations and keep the rest of their state in these variables, which no
\* build operation touches.
VARIABLES
    corpus,            \* the project tree under the project path
    arg,               \* the focal name or package the extractor was given
    files,             \* what glob returned to the running extractor
    contents,          \* the texts readJavaFile has returned to it so far
    reads,             \* how many files the running extractor has opened
    runs,              \* how many extractor invocations have been started
    previous,          \* what the invocation before this one returned
    containerRuntime,  \* the module variable of this name
    probe              \* where a concurrent detectContainerRuntime stands

\* The tool calls that run side by side keep their state in these
\* variables, which the operations above do not touch.
VARIABLES
    calls,             \* the tool calls in flight, each with its locals
    spawned,           \* the subprocesses started so far, by command
    env                \* what the machine offers to the server

svars == <<calls, spawned, env>>

evars == <<corpus, arg, files, contents, reads, runs, previous,
           containerRuntime, probe, calls, spawned, env>>

\* no tool call is in flight
ServerIdle ==
    /\ calls = <<>>
    /\ spawned = [docker |-> 0, podman |-> 0, version |-> 0]
    /\ env = [docker |-> FALSE, podman |-> FALSE]

\* no extractor has been called and nothing has probed for a runtime
ExtractorIdle ==
    /\ arg = <<>>
    /\ files = <<>>
    /\ contents = <<>>
    /\ reads = 0
    /\ runs = 0
    /\ previous = [none |-> TRUE]
    /\ containerRuntime = "null"
    /\ probe = "idle"
    /\ ServerIdle

NoResult == [none |-> TRUE]

Pending == [state |-> "pending"]

\* exec resolves with {stdout, stderr}
Resolved == [state |-> "resolved"]

\* exec rejects with an error decorated with stdout and stderr
Rejected(cause) == [state |-> "rejected", cause |-> cause, hasOutput |-> TRUE]

\* exec throws before it has made the child: the error carries no output
Undecorated == [state |-> "rejected", cause |-> "throw", hasOutput |-> FALSE]

\* no operation has been called
BuildIdle ==
    /\ pc = "idle"
    /\ op = "none"
    /\ timeout = 0
    /\ execCalls = 0
    /\ killed = FALSE
    /\ chunks = 0
    /\ stdout = <<>>
    /\ stderr = <<>>
    /\ settle = Pending
    /\ result = NoResult

Init ==
    /\ BuildIdle
    /\ corpus = "empty"
    /\ ExtractorIdle

\* validateMavenCompile is entered and calls execAsync
CallValidateMavenCompile ==
    /\ pc = "idle"
    /\ pc' = "spawning"
    /\ op' = "compile"
    /\ timeout' = COMPILE_TIMEOUT
    /\ execCalls' = execCalls + 1
    /\ UNCHANGED <<killed, chunks, stdout, stderr, settle, result>>
    /\ UNCHANGED evars

\* runTestCheckpoint is entered and calls execAsync
CallRunTestCheckpoint ==
    /\ pc = "idle"
    /\ pc' = "spawning"
    /\ op' = "test"
    /\ timeout' = TEST_TIMEOUT
    /\ execCalls' = execCalls + 1
    /\ UNCHANGED <<killed, chunks, stdout, stderr, settle, result>>
    /\ UNCHANGED evars

\* spawn throws synchronously (E2BIG, ENOTDIR, an invalid argument)
SpawnThrows ==
    /\ pc = "spawning"
    /\ pc' = "settled"
    /\ settle' = Undecorated
    /\ UNCHANGED <<op, timeout, execCalls, killed, chunks, stdout, stderr, result>>
    /\ UNCHANGED evars

\* the child emits 'error' (ENOENT, EACCES): exec rejects with empty output
SpawnFails ==
    /\ pc = "spawning"
    /\ pc' = "settled"
    /\ settle' = Rejected("spawn")
    /\ UNCHANGED <<op, timeout, execCalls, killed, chunks, stdout, stderr, result>>
    /\ UNCHANGED evars

\* the child runs and the timer of exec is armed
SpawnStarts ==
    /\ pc = "spawning"
    /\ pc' = "running"
    /\ UNCHANGED <<op, timeout, execCalls, killed, chunks, stdout, stderr, settle, result>>
    /\ UNCHANGED evars

ChunksOf(o) == IF o = "compile" THEN CompileChunks ELSE TestChunks

WriteStdout ==
    /\ pc = "running"
    /\ chunks < MaxChunks
    /\ \E c \in ChunksOf(op) : stdout' = stdout \o c
    /\ chunks' = chunks + 1
    /\ UNCHANGED <<pc, op, timeout, execCalls, killed, stderr, settle, result>>
    /\ UNCHANGED evars

WriteStderr ==
    /\ pc = "running"
    /\ chunks < MaxChunks
    /\ \E c \in ChunksOf(op) : stderr' = stderr \o c
    /\ chunks' = chunks + 1
    /\ UNCHANGED <<pc, op, timeout, execCalls, killed, stdout, settle, result>>
    /\ UNCHANGED evars

\* the child exits with status 0 before the timer
ExitZero ==
    /\ pc = "running"
    /\ pc' = "settled"
    /\ settle' = Resolved
    /\ UNCHANGED <<op, timeout, execCalls, killed, chunks, stdout, stderr, result>>
    /\ UNCHANGED evars

\* the child exits with another status before the timer (or exec ends it
\* for exceeding maxBuffer): exec rejects with what was captured
ExitNonZero ==
    /\ pc = "running"
    /\ pc' = "settled"
    /\ settle' = Rejected("exit")
    /\ UNCHANGED <<op, timeout, execCalls, killed, chunks, stdout, stderr, result>>
    /\ UNCHANGED evars

\* the timer of exec expires: child.kill(SIGTERM)
TimerExpires ==
    /\ pc = "running"
    /\ pc' = "killed"
    /\ killed' = TRUE
    /\ UNCHANGED <<op, timeout, execCalls, chunks, stdout, stderr, settle, result>>
    /\ UNCHANGED evars

\* the killed child closes: exec rejects with what was captured
ChildCloses ==
    /\ pc = "killed"
    /\ pc' = "settled"
    /\ settle' = Rejected("timeout")
    /\ UNCHANGED <<op, timeout, execCalls, killed, chunks, stdout, stderr, result>>
    /\ UNCHANGED evars

\* the rejection as the catch block sees it
ErrorOf(s, out, err) == [hasOutput |-> s.hasOutput, stdout |-> out, stderr |-> err]

ValidateMavenCompile(s, out, err) ==
    IF s.state = "resolved" THEN CompileResolved(out, err)
    ELSE CompileRejected(ErrorOf(s, out, err))

RunTestCheckpoint(s, out, err) ==
    IF s.state = "resolved" THEN TestResolved(out, err)
    ELSE TestRejected(ErrorOf(s, out, err))

\* the await returns or throws, and the operation runs to its return
Return ==
    /\ pc = "settled"
    /\ pc' = "done"
    /\ result' = IF op = "compile" THEN ValidateMavenCompile(settle, stdout, stderr)
                 ELSE RunTestCheckpoint(settle, stdout, stderr)
    /\ UNCHANGED <<op, timeout, execCalls, killed, chunks, stdout, stderr, settle>>
    /\ UNCHANGED evars

Next ==
    \/ CallValidateMavenCompile
    \/ CallRunTestCheckpoint
    \/ SpawnThrows
    \/ SpawnFails
    \/ SpawnStarts
    \/ WriteStdout
    \/ WriteStderr
    \/ ExitZero
    \/ ExitNonZero
    \/ TimerExpires
    \/ ChildCloses
    \/ Return

Spec == Init /\ [][Next]_<<vars, evars>>


(***************************************************************************)
(* Vocabulary of the claims.                                               *)
(***************************************************************************)
Done == pc = "done"

\* the captured output, stdout and stderr combined
Output == stdout \o stderr

Has(r, f) == f \in DOMAIN r

IsOutcome(r) == Has(r, "success")

IsStructured(r) ==
    /\ Has(r, "testsRun") /\ Has(r, "failures") /\ Has(r, "errors")
    /\ Has(r, "skipped") /\ Has(r, "failureMessages")

HasNoCounts(r) ==
    /\ ~Has(r, "testsRun") /\ ~Has(r, "failures")
    /\ ~Has(r, "errors") /\ ~Has(r, "skipped")

\* exec has handed the captured stdout and stderr to the operation
Captured ==
    \/ settle.state = "resolved"
    \/ settle.state = "rejected" /\ settle.hasOutput

\* the captured output holds a summary line
HasSummary == TestsRunStarts(Output) # {}

\* the numbers a, b, c, d of the summary line at i
SummaryCounts(i) ==
    LET m == TestsRunMatch(Output, i)
    IN  [a |-> ParseInt(m.run), b |-> ParseInt(m.failures),
         c |-> ParseInt(m.errors), d |-> ParseInt(m.skipped)]

\* the text of a line after its first [ERROR] marker, without the white
\* space around it; empty when the line carries no marker
AfterMarker(line) ==
    LET ms == {i \in 1..Len(line) : MatchAt(line, i, ERROR_MARKER)}
    IN  IF ms = {} THEN <<>>
        ELSE Trim(SubSeq(line, Min(ms) + Len(ERROR_MARKER), Len(line)))

\* the lines of t, from position a on, that carry the [ERROR] marker and a
\* text after it, in order, each without the marker
RECURSIVE MarkerLines(_, _)
MarkerLines(t, a) ==
    IF a > Len(t) THEN <<>>
    ELSE LET e == LineEnd(t, a)
             rest == AfterMarker(SubSeq(t, a, e - 1))
         IN  (IF rest = <<>> THEN <<>> ELSE <<rest>>) \o MarkerLines(t, e + 1)

IsPrefix(p, q) == Len(p) <= Len(q) /\ \A i \in 1..Len(p) : p[i] = q[i]

\* the excerpts fm[i..] can be laid on the output in order, each after a
\* failure marker that lies at or after the end of the excerpt before it
RECURSIVE InOutputOrder(_, _, _)
InOutputOrder(fm, i, from) ==
    IF i > Len(fm) THEN TRUE
    ELSE LET qs == {q \in from..(Len(Output) + 1) :
                      /\ MatchAt(Output, q, fm[i])
                      /\ \E s \in from..(q - Len(FAILURE_MARKER)) :
                            MatchAt(Output, s, FAILURE_MARKER)}
         IN  qs # {} /\ InOutputOrder(fm, i + 1, Min(qs) + Len(fm[i]))

(***************************************************************************)
(* The claims.                                                             *)
(***************************************************************************)
\* C1: every structured test outcome has success exactly when its failures
\* and errors counts are both zero.
C1_SuccessIffNoFailuresNoErrors ==
    (Done /\ op = "test" /\ IsStructured(result)) =>
        (result.success <=> (result.failures = 0 /\ result.errors = 0))

\* C2: a test run whose captured output holds a summary line a, b, c, d
\* returns the structured record of these counts with success = (b = 0 and
\* c = 0), also when the build tool exits with a non-zero status.
C2_SummaryYieldsStructuredRecord ==
    (Done /\ op = "test" /\ Captured /\ HasSummary) =>
        /\ IsStructured(result)
        /\ \E i \in TestsRunStarts(Output) :
              LET n == SummaryCounts(i)
              IN  /\ result.testsRun = n.a
                  /\ result.failures = n.b
                  /\ result.errors = n.c
                  /\ result.skipped = n.d
                  /\ result.success <=> (n.b = 0 /\ n.c = 0)

C4_EveryMarkerLineIsCandidate ==
    (Done /\ op = "compile" /\ ~result.success) =>
        result.errors = SliceFirst(MarkerLines(Output, 1), MAX_ERRORS)

\* C5: errors has at most ten entries and is a prefix, in source order, of
\* the error-marker lines of the captured output; a failed compile with more
\* than ten such lines reports exactly the first ten.
C5_ErrorsAreFirstTenMarkerLines ==
    (Done /\ op = "compile") =>
        /\ Len(result.errors) <= MAX_ERRORS
        /\ IsPrefix(result.errors, MarkerLines(Output, 1))
        /\ (~result.success /\ Len(MarkerLines(Output, 1)) > MAX_ERRORS)
              => Len(result.errors) = MAX_ERRORS

C8_FailureCarriesLast1000 ==
    (Done /\ settle.state = "rejected" /\ settle.cause \in {"timeout", "spawn", "throw"}) =>
        /\ IsOutcome(result) /\ ~result.success
        /\ Has(result, "output")
        /\ result.output = SliceLast(Output, FAILED_TAIL)
        /\ Len(result.output) <= FAILED_TAIL

\* C9: exec is called at most once per operation, with a timeout of 180 s
\* for compile and 120 s for test; every operation that ends has returned an
\* outcome, and after a timeout the child was killed and the outcome is a
\* failure.
C9_OneOutcomePerInvocation ==
    /\ execCalls <= 1
    /\ op = "compile" => timeout = 180000
    /\ op = "test" => timeout = 120000
    /\ Done => IsOutcome(result)
    /\ (Done /\ settle.state = "rejected" /\ settle.cause = "timeout") =>
          killed /\ IsOutcome(result) /\ ~result.success

\* C10: in every test outcome failureMessages has at most five entries of at
\* most 200 characters each, taken in output order from the text that
\* follows a failure marker, and it is empty when success is true.
C10_FailureMessagesBounded ==
    (Done /\ op = "test" /\ IsStructured(result)) =>
        /\ Len(result.failureMessages) <= 5
        /\ \A i \in 1..Len(result.failureMessages) :
              Len(result.failureMessages[i]) <= 200
        /\ InOutputOrder(result.failureMessages, 1, 1)
        /\ result.success => result.failureMessages = <<>>

\* C10, witness: more than five failure excerpts in the output, five of them
\* reported, one of them cut to 200 characters.
C10_Witness ==
    /\ Done /\ op = "test" /\ IsStructured(result)
    /\ Len(FailurePatternMatches(Output, 1)) > 5
    /\ Len(result.failureMessages) = 5
    /\ \E i \in 1..5 : Len(result.failureMessages[i]) = 200

(***************************************************************************)
(* The fact extractors of index.ts: each one asks glob for the files of    *)
(* the project that match a name pattern, reads them with readJavaFile and *)
(* scans their text with regular expressions and includes().               *)
(***************************************************************************)

(***************************************************************************)
(* Character classes and string primitives the extractors add.             *)
(***************************************************************************)
UPPER ==
    <<"A", "B", "C", "D", "E", "F", "G", "H", "I", "J", "K", "L", "M",
      "N", "O", "P", "Q", "R", "S", "T", "U", "V", "W", "X", "Y", "Z">>

LOWER ==
    <<"a", "b", "c", "d", "e", "f", "g", "h", "i", "j", "k", "l", "m",
      "n", "o", "p", "q", "r", "s", "t", "u", "v", "w", "x", "y", "z">>

UpperCase == {UPPER[k] : k \in 1..Len(UPPER)}

LowerCase == {LOWER[k] : k \in 1..Len(LOWER)}

IsUpper(c) == c \in UpperCase

IsLower(c) == c \in LowerCase

\* \w
WordChars ==
    UpperCase \cup LowerCase \cup {"_"}
    \cup {"0", "1", "2", "3", "4", "5", "6", "7", "8", "9"}

IsWord(c) == c \in WordChars

\* ['"]
IsQuote(c) == c \in {"'", "\""}

\* String.prototype.toLowerCase, one character
LowerChar(c) ==
    IF IsUpper(c) THEN LOWER[CHOOSE k \in 1..Len(UPPER) : UPPER[k] = c] ELSE c

\* String.prototype.toLowerCase
ToLowerCase(t) == [i \in 1..Len(t) |-> LowerChar(t[i])]

\* String.prototype.toUpperCase, one character
UpperChar(c) ==
    IF IsLower(c) THEN UPPER[CHOOSE k \in 1..Len(LOWER) : LOWER[k] = c] ELSE c

\* String.prototype.toUpperCase
ToUpperCase(t) == [i \in 1..Len(t) |-> UpperChar(t[i])]

\* String.prototype.indexOf: the first position of lit in t, 0 when absent
\* (the source counts from 0 and answers -1)
IndexOf(t, lit) ==
    LET at == {i \in 1..(Len(t) + 1) : MatchAt(t, i, lit)}
    IN  IF at = {} THEN 0 ELSE Min(at)

\* String.prototype.startsWith
StartsWith(t, lit) == MatchAt(t, 1, lit)

\* the position after the longest run of word characters starting at j
RECURSIVE WordRunEnd(_, _)
WordRunEnd(t, j) ==
    IF j > Len(t) \/ ~IsWord(t[j]) THEN j ELSE WordRunEnd(t, j + 1)

\* t.slice(i - 1, e - 1): the text from position i up to, not with, e
Slice(t, i, e) == SubSeq(t, i, e - 1)

\* the elements of a list of texts without repetition, each at the place
\* of its first occurrence ([...new Set(list)], Array.from(set))
Distinct(list) ==
    LET firsts == {i \in 1..Len(list) : \A j \in 1..(i - 1) : list[j] # list[i]}
        nth(k) == CHOOSE i \in firsts : Cardinality({j \in firsts : j < i}) = k - 1
    IN  [k \in 1..Cardinality(firsts) |-> list[nth(k)]]

\* Array.prototype.filter: the elements of list at the places in keep, in
\* their order
RECURSIVE Keep(_, _)
Keep(list, keep) ==
    IF list = <<>> THEN <<>>
    ELSE Keep(SubSeq(list, 1, Len(list) - 1), keep)
         \o (IF Len(list) \in keep THEN <<list[Len(list)]>> ELSE <<>>)

(***************************************************************************)
(* Files of the projects the extractors are run on.                        *)
(***************************************************************************)
\* an entity: a to-many field, a to-one field with a nullable-false
\* join column and a to-one field without join column
ORDER_JAVA ==
    <<"@", "E", "n", "t", "i", "t", "y", "\n", "p", "u", "b", "l", "i", "c",
      " ", "c", "l", "a", "s", "s", " ", "O", "r", "d", "e", "r", " ", "e",
      "x", "t", "e", "n", "d", "s", " ", "B", "a", "s", "e", "E", "n", "t",
      "i", "t", "y", " ", "{", "\n", " ", " ", "@", "O", "n", "e", "T", "o",
      "M", "a", "n", "y", "(", "m", "a", "p", "p", "e", "d", "B", "y", " ",
      "=", " ", "\"", "o", "r", "d", "e", "r", "\"", ")", "\n", " ", " ",
      "p", "r", "i", "v", "a", "t", "e", " ", "L", "i", "s", "t", "<", "I",
      "t", "e", "m", ">", " ", "i", "t", "e", "m", "s", ";", "\n", " ", " ",
      "@", "M", "a", "n", "y", "T", "o", "O", "n", "e", "\n", " ", " ", "@",
      "J", "o", "i", "n", "C", "o", "l", "u", "m", "n", "(", "n", "a", "m",
      "e", " ", "=", " ", "\"", "c", "\"", ",", " ", "n", "u", "l", "l",
      "a", "b", "l", "e", " ", "=", " ", "f", "a", "l", "s", "e", ")", "\n",
      " ", " ", "p", "r", "i", "v", "a", "t", "e", " ", "C", "u", "s", "t",
      "o", "m", "e", "r", " ", "c", "u", "s", "t", "o", "m", "e", "r", ";",
      "\n", " ", " ", "@", "M", "a", "n", "y", "T", "o", "O", "n", "e",
      "\n", " ", " ", "p", "r", "i", "v", "a", "t", "e", " ", "S", "t", "o",
      "r", "e", " ", "s", "t", "o", "r", "e", ";", "\n", "}", "\n">>

\* an entity with a discriminator and a nullable to-one field
ITEM_JAVA ==
    <<"@", "D", "i", "s", "c", "r", "i", "m", "i", "n", "a", "t", "o", "r",
      "C", "o", "l", "u", "m", "n", "(", "n", "a", "m", "e", " ", "=", " ",
      "\"", "k", "i", "n", "d", "\"", ")", "\n", "p", "u", "b", "l", "i",
      "c", " ", "c", "l", "a", "s", "s", " ", "I", "t", "e", "m", " ", "{",
      "\n", " ", " ", "@", "M", "a", "n", "y", "T", "o", "O", "n", "e",
      "\n", " ", " ", "@", "J", "o", "i", "n", "C", "o", "l", "u", "m", "n",
      "(", "n", "u", "l", "l", "a", "b", "l", "e", " ", "=", " ", "t", "r",
      "u", "e", ")", "\n", " ", " ", "p", "r", "i", "v", "a", "t", "e", " ",
      "O", "r", "d", "e", "r", " ", "o", "r", "d", "e", "r", ";", "\n", "}",
      "\n">>

\* a token utility
JWT_TOKEN_UTIL_JAVA ==
    <<"p", "u", "b", "l", "i", "c", " ", "c", "l", "a", "s", "s", " ", "J",
      "w", "t", "T", "o", "k", "e", "n", "U", "t", "i", "l", " ", "{", "\n",
      " ", " ", "S", "t", "r", "i", "n", "g", " ", "r", "o", "l", "e", "(",
      "C", "l", "a", "i", "m", "s", " ", "c", "l", "a", "i", "m", "s", ")",
      " ", "{", " ", "r", "e", "t", "u", "r", "n", " ", "c", "l", "a", "i",
      "m", "s", ".", "g", "e", "t", "(", "\"", "r", "o", "l", "e", "\"",
      ")", " ", "+", " ", "c", "l", "a", "i", "m", "s", ".", "g", "e", "t",
      "S", "u", "b", "j", "e", "c", "t", "(", ")", ";", " ", "}", "\n", " ",
      " ", "S", "t", "r", "i", "n", "g", " ", "t", "e", "n", "a", "n", "t",
      "(", "J", "w", "s", " ", "j", "w", "s", ")", " ", "{", " ", "r", "e",
      "t", "u", "r", "n", " ", "j", "w", "s", ".", "g", "e", "t", "C", "l",
      "a", "i", "m", "(", "'", "t", "e", "n", "a", "n", "t", "'", ")", ";",
      " ", "}", "\n", "}", "\n">>

\* a request filter
JWT_REQUEST_FILTER_JAVA ==
    <<"p", "u", "b", "l", "i", "c", " ", "c", "l", "a", "s", "s", " ", "J",
      "w", "t", "R", "e", "q", "u", "e", "s", "t", "F", "i", "l", "t", "e",
      "r", " ", "{", "\n", " ", " ", "v", "o", "i", "d", " ", "f", "i", "l",
      "t", "e", "r", "(", "C", "l", "a", "i", "m", "s", " ", "c", "l", "a",
      "i", "m", "s", ")", " ", "{", "\n", " ", " ", " ", " ", "c", "l", "a",
      "i", "m", "s", ".", "g", "e", "t", "(", "\"", "t", "e", "n", "a", "n",
      "t", "\"", ")", ";", " ", "c", "l", "a", "i", "m", "s", ".", "g", "e",
      "t", "(", "\"", "r", "o", "l", "e", "\"", ")", ";", " ", "b", "o",
      "d", "y", ".", "g", "e", "t", "(", "\"", "u", "i", "d", "\"", ")",
      ";", " ", "c", "l", "a", "i", "m", "s", ".", "g", "e", "t", "I", "d",
      "(", ")", ";", "\n", " ", " ", "}", "\n", "}", "\n">>

\* a controller
ORDER_CONTROLLER_JAVA ==
    <<"@", "R", "e", "s", "t", "C", "o", "n", "t", "r", "o", "l", "l", "e",
      "r", "\n", "@", "R", "e", "q", "u", "e", "s", "t", "M", "a", "p", "p",
      "i", "n", "g", "(", "\"", "/", "a", "p", "i", "/", "o", "r", "d", "e",
      "r", "s", "\"", ")", "\n", "p", "u", "b", "l", "i", "c", " ", "c",
      "l", "a", "s", "s", " ", "O", "r", "d", "e", "r", "C", "o", "n", "t",
      "r", "o", "l", "l", "e", "r", " ", "{", "\n", " ", " ", "@", "G", "e",
      "t", "M", "a", "p", "p", "i", "n", "g", "(", "\"", "/", "{", "i", "d",
      "}", "\"", ")", "\n", " ", " ", "p", "u", "b", "l", "i", "c", " ",
      "O", "r", "d", "e", "r", " ", "g", "e", "t", "(", "L", "o", "n", "g",
      " ", "i", "d", ")", " ", "{", " ", "r", "e", "t", "u", "r", "n", " ",
      "s", "e", "r", "v", "i", "c", "e", ".", "f", "i", "n", "d", "(", "i",
      "d", ")", ";", " ", "}", "\n", " ", " ", "@", "P", "r", "e", "A", "u",
      "t", "h", "o", "r", "i", "z", "e", "(", "\"", "h", "a", "s", "R", "o",
      "l", "e", "(", "'", "A", "'", ")", "\"", ")", "\n", " ", " ", "@",
      "P", "o", "s", "t", "M", "a", "p", "p", "i", "n", "g", "(", "v", "a",
      "l", "u", "e", " ", "=", " ", "\"", "/", "n", "e", "w", "\"", ")",
      "\n", " ", " ", "p", "u", "b", "l", "i", "c", " ", "O", "r", "d", "e",
      "r", " ", "c", "r", "e", "a", "t", "e", "(", ")", " ", "{", " ", "r",
      "e", "t", "u", "r", "n", " ", "n", "u", "l", "l", ";", " ", "}", "\n",
      "}", "\n">>

\* a repository
ORDER_REPOSITORY_JAVA ==
    <<"p", "u", "b", "l", "i", "c", " ", "i", "n", "t", "e", "r", "f", "a",
      "c", "e", " ", "O", "r", "d", "e", "r", "R", "e", "p", "o", "s", "i",
      "t", "o", "r", "y", " ", "e", "x", "t", "e", "n", "d", "s", " ", "J",
      "p", "a", "R", "e", "p", "o", "s", "i", "t", "o", "r", "y", "<", "O",
      "r", "d", "e", "r", ",", " ", "L", "o", "n", "g", ">", " ", "{", "\n",
      " ", " ", "L", "i", "s", "t", "<", "O", "r", "d", "e", "r", ">", " ",
      "f", "i", "n", "d", "B", "y", "S", "t", "o", "r", "e", "(", "S", "t",
      "o", "r", "e", " ", "s", "t", "o", "r", "e", ")", ";", "\n", " ", " ",
      "@", "Q", "u", "e", "r", "y", "(", "\"", "s", "e", "l", "e", "c", "t",
      " ", "o", " ", "f", "r", "o", "m", " ", "O", "r", "d", "e", "r", " ",
      "o", "\"", ")", "\n", " ", " ", "L", "i", "s", "t", "<", "O", "r",
      "d", "e", "r", ">", " ", "f", "i", "n", "d", "O", "p", "e", "n", "(",
      ")", ";", "\n", " ", " ", "l", "o", "n", "g", " ", "c", "o", "u", "n",
      "t", "B", "y", "S", "t", "o", "r", "e", "(", "S", "t", "o", "r", "e",
      " ", "s", "t", "o", "r", "e", ")", ";", "\n", "}", "\n">>

\* a service that injects two properties
ORDER_SERVICE_JAVA ==
    <<"@", "S", "e", "r", "v", "i", "c", "e", "\n", "@", "T", "r", "a", "n",
      "s", "a", "c", "t", "i", "o", "n", "a", "l", "\n", "p", "u", "b", "l",
      "i", "c", " ", "c", "l", "a", "s", "s", " ", "O", "r", "d", "e", "r",
      "S", "e", "r", "v", "i", "c", "e", " ", "{", "\n", " ", " ", "@", "A",
      "u", "t", "o", "w", "i", "r", "e", "d", " ", "p", "r", "i", "v", "a",
      "t", "e", " ", "O", "r", "d", "e", "r", "R", "e", "p", "o", "s", "i",
      "t", "o", "r", "y", " ", "o", "r", "d", "e", "r", "s", ";", "\n", " ",
      " ", "@", "V", "a", "l", "u", "e", "(", "\"", "$", "{", "a", "w", "s",
      ".", "r", "e", "g", "i", "o", "n", ":", "e", "u", "}", "\"", ")", " ",
      "p", "r", "i", "v", "a", "t", "e", " ", "S", "t", "r", "i", "n", "g",
      " ", "r", "e", "g", "i", "o", "n", ";", "\n", " ", " ", "@", "V", "a",
      "l", "u", "e", "(", "\"", "$", "{", "j", "w", "t", ".", "s", "e", "c",
      "r", "e", "t", "}", "\"", ")", " ", "p", "r", "i", "v", "a", "t", "e",
      " ", "S", "t", "r", "i", "n", "g", " ", "s", "e", "c", "r", "e", "t",
      ";", "\n", " ", " ", "p", "u", "b", "l", "i", "c", " ", "O", "r", "d",
      "e", "r", " ", "f", "i", "n", "d", "(", "L", "o", "n", "g", " ", "i",
      "d", ")", " ", "{", " ", "t", "h", "r", "o", "w", " ", "n", "e", "w",
      " ", "N", "o", "t", "F", "o", "u", "n", "d", "E", "x", "c", "e", "p",
      "t", "i", "o", "n", "(", ")", ";", " ", "}", "\n", "}", "\n">>

\* a profiled configuration that injects two properties, one of them
\* also injected by the service
S3_CONFIG_JAVA ==
    <<"@", "C", "o", "n", "f", "i", "g", "u", "r", "a", "t", "i", "o", "n",
      "\n", "@", "P", "r", "o", "f", "i", "l", "e", "(", "\"", "!", "t",
      "e", "s", "t", "\"", ")", "\n", "p", "u", "b", "l", "i", "c", " ",
      "c", "l", "a", "s", "s", " ", "S", "3", "C", "o", "n", "f", "i", "g",
      " ", "{", "\n", " ", " ", "@", "V", "a", "l", "u", "e", "(", "\"",
      "$", "{", "a", "p", "p", ".", "n", "a", "m", "e", "}", "\"", ")", " ",
      "p", "r", "i", "v", "a", "t", "e", " ", "S", "t", "r", "i", "n", "g",
      " ", "n", "a", "m", "e", ";", "\n", " ", " ", "@", "V", "a", "l", "u",
      "e", "(", "'", "$", "{", "m", "a", "i", "l", ".", "h", "o", "s", "t",
      ":", "l", "o", "c", "a", "l", "h", "o", "s", "t", "}", "'", ")", " ",
      "p", "r", "i", "v", "a", "t", "e", " ", "S", "t", "r", "i", "n", "g",
      " ", "h", "o", "s", "t", ";", "\n", " ", " ", "@", "V", "a", "l", "u",
      "e", "(", "\"", "$", "{", "j", "w", "t", ".", "s", "e", "c", "r", "e",
      "t", "}", "\"", ")", " ", "p", "r", "i", "v", "a", "t", "e", " ", "S",
      "t", "r", "i", "n", "g", " ", "k", "e", "y", ";", "\n", "}", "\n">>

\* a response advice
API_RESPONSE_ADVICE_JAVA ==
    <<"@", "C", "o", "n", "t", "r", "o", "l", "l", "e", "r", "A", "d", "v",
      "i", "c", "e", "\n", "p", "u", "b", "l", "i", "c", " ", "c", "l", "a",
      "s", "s", " ", "A", "p", "i", "R", "e", "s", "p", "o", "n", "s", "e",
      "A", "d", "v", "i", "c", "e", " ", "i", "m", "p", "l", "e", "m", "e",
      "n", "t", "s", " ", "R", "e", "s", "p", "o", "n", "s", "e", "B", "o",
      "d", "y", "A", "d", "v", "i", "c", "e", "<", "O", "b", "j", "e", "c",
      "t", ">", " ", "{", "\n", "}", "\n">>

\* an advice whose class body holds a colon
ERROR_ADVICE_JAVA ==
    <<"@", "C", "o", "n", "t", "r", "o", "l", "l", "e", "r", "A", "d", "v",
      "i", "c", "e", "\n", "c", "l", "a", "s", "s", " ", "E", "r", "r", "o",
      "r", "A", "d", "v", "i", "c", "e", " ", "{", "\n", " ", " ", "O", "b",
      "j", "e", "c", "t", " ", "w", "r", "a", "p", "(", "O", "b", "j", "e",
      "c", "t", " ", "b", "o", "d", "y", ")", " ", "{", " ", "r", "e", "t",
      "u", "r", "n", " ", "b", "o", "d", "y", " ", "=", "=", " ", "n", "u",
      "l", "l", " ", "?", " ", "e", "m", "p", "t", "y", " ", ":", " ", "b",
      "o", "d", "y", ";", " ", "}", "\n", "}", "\n">>

\* a snake-case DTO
ORDER_DTO_JAVA ==
    <<"@", "J", "s", "o", "n", "N", "a", "m", "i", "n", "g", "(", "P", "r",
      "o", "p", "e", "r", "t", "y", "N", "a", "m", "i", "n", "g", "S", "t",
      "r", "a", "t", "e", "g", "i", "e", "s", ".", "S", "n", "a", "k", "e",
      "C", "a", "s", "e", "S", "t", "r", "a", "t", "e", "g", "y", ".", "c",
      "l", "a", "s", "s", ")", "\n", "p", "u", "b", "l", "i", "c", " ", "c",
      "l", "a", "s", "s", " ", "O", "r", "d", "e", "r", "D", "t", "o", " ",
      "{", " ", "}", "\n">>

\* a DTO without naming annotation
ITEM_DTO_JAVA ==
    <<"p", "u", "b", "l", "i", "c", " ", "c", "l", "a", "s", "s", " ", "I",
      "t", "e", "m", "D", "t", "o", " ", "{", " ", "}", "\n">>

\* application-test.properties: it defines app.name; jwt.secret occurs in
\* it as part of a longer key and aws.region as part of a value
APPLICATION_TEST_PROPERTIES ==
    <<"a", "p", "p", ".", "n", "a", "m", "e", "=", "s", "h", "o", "p", "\n",
      "j", "w", "t", ".", "s", "e", "c", "r", "e", "t", ".", "k", "e", "y",
      "=", "a", "b", "c", "\n", "h", "o", "m", "e", "=", "/", "o", "p", "t",
      "/", "a", "w", "s", ".", "r", "e", "g", "i", "o", "n", "\n">>

(***************************************************************************)
(* Names, directories and patterns.                                        *)
(***************************************************************************)
N_ORDER ==
    <<"O", "r", "d", "e", "r">>

N_ITEM ==
    <<"I", "t", "e", "m">>

N_JWT_TOKEN_UTIL ==
    <<"J", "w", "t", "T", "o", "k", "e", "n", "U", "t", "i", "l">>

N_JWT_REQUEST_FILTER ==
    <<"J", "w", "t", "R", "e", "q", "u", "e", "s", "t", "F", "i", "l", "t",
      "e", "r">>

N_ORDER_CONTROLLER ==
    <<"O", "r", "d", "e", "r", "C", "o", "n", "t", "r", "o", "l", "l", "e",
      "r">>

N_ORDER_REPOSITORY ==
    <<"O", "r", "d", "e", "r", "R", "e", "p", "o", "s", "i", "t", "o", "r",
      "y">>

N_ORDER_SERVICE ==
    <<"O", "r", "d", "e", "r", "S", "e", "r", "v", "i", "c", "e">>

N_S3_CONFIG ==
    <<"S", "3", "C", "o", "n", "f", "i", "g">>

N_API_RESPONSE_ADVICE ==
    <<"A", "p", "i", "R", "e", "s", "p", "o", "n", "s", "e", "A", "d", "v",
      "i", "c", "e">>

N_ERROR_ADVICE ==
    <<"E", "r", "r", "o", "r", "A", "d", "v", "i", "c", "e">>

N_ORDER_DTO ==
    <<"O", "r", "d", "e", "r", "D", "t", "o">>

N_ITEM_DTO ==
    <<"I", "t", "e", "m", "D", "t", "o">>

N_GHOST ==
    <<"G", "h", "o", "s", "t">>

D_MODEL ==
    <<"c", "o", "m", "/", "s", "h", "o", "p", "/", "m", "o", "d", "e", "l">>

D_SECURITY ==
    <<"c", "o", "m", "/", "s", "h", "o", "p", "/", "s", "e", "c", "u", "r",
      "i", "t", "y">>

D_WEB ==
    <<"c", "o", "m", "/", "s", "h", "o", "p", "/", "w", "e", "b">>

D_SERVICE ==
    <<"c", "o", "m", "/", "s", "h", "o", "p", "/", "s", "e", "r", "v", "i",
      "c", "e">>

D_CONFIG ==
    <<"c", "o", "m", "/", "s", "h", "o", "p", "/", "c", "o", "n", "f", "i",
      "g">>

D_DTO ==
    <<"c", "o", "m", "/", "s", "h", "o", "p", "/", "d", "t", "o">>

PKG_DTO ==
    <<"c", "o", "m", ".", "s", "h", "o", "p", ".", "d", "t", "o">>

PKG_NONE ==
    <<"c", "o", "m", ".", "s", "h", "o", "p", ".", "n", "o", "n", "e">>

PAT_JWT_TOKEN_UTIL ==
    <<"*", "J", "w", "t", "T", "o", "k", "e", "n", "U", "t", "i", "l", "*">>

PAT_JWT_REQUEST_FILTER ==
    <<"*", "J", "w", "t", "R", "e", "q", "u", "e", "s", "t", "F", "i", "l",
      "t", "e", "r", "*">>

PAT_ADVICE ==
    <<"*", "A", "d", "v", "i", "c", "e", "*">>

PAT_RESPONSE ==
    <<"*", "R", "e", "s", "p", "o", "n", "s", "e", "*">>

JAVA_EXT ==
    <<".", "j", "a", "v", "a">>

SRC_MAIN_JAVA ==
    <<"/", "s", "r", "c", "/", "m", "a", "i", "n", "/", "j", "a", "v", "a",
      "/">>

(***************************************************************************)
(* The project tree and the corpus locator.                                *)
(***************************************************************************)
\* a file under src/main/java: its directory below that tree, its name
\* without ".java", its text, and whether readFile can read it
JavaFile(dir, name, text) ==
    [dir |-> dir, name |-> name, text |-> text, readable |-> TRUE]

\* the same file when readFile fails on it (no permission, a directory or a
\* dangling link of that name)
Unreadable(f) == [f EXCEPT !.readable = FALSE]

NoFile == [exists |-> FALSE, text |-> <<>>]

TestProperties(text) == [exists |-> TRUE, text |-> text]

\* the files in the order glob walks them
ShopFiles ==
    <<JavaFile(D_CONFIG, N_S3_CONFIG, S3_CONFIG_JAVA),
      JavaFile(D_DTO, N_ITEM_DTO, ITEM_DTO_JAVA),
      JavaFile(D_DTO, N_ORDER_DTO, ORDER_DTO_JAVA),
      JavaFile(D_MODEL, N_ITEM, ITEM_JAVA),
      JavaFile(D_MODEL, N_ORDER, ORDER_JAVA),
      JavaFile(D_SECURITY, N_JWT_REQUEST_FILTER, JWT_REQUEST_FILTER_JAVA),
      JavaFile(D_SECURITY, N_JWT_TOKEN_UTIL, JWT_TOKEN_UTIL_JAVA),
      JavaFile(D_SERVICE, N_ORDER_REPOSITORY, ORDER_REPOSITORY_JAVA),
      JavaFile(D_SERVICE, N_ORDER_SERVICE, ORDER_SERVICE_JAVA),
      JavaFile(D_WEB, N_API_RESPONSE_ADVICE, API_RESPONSE_ADVICE_JAVA),
      JavaFile(D_WEB, N_ERROR_ADVICE, ERROR_ADVICE_JAVA),
      JavaFile(D_WEB, N_ORDER_CONTROLLER, ORDER_CONTROLLER_JAVA)>>

\* a project without property injection, advice or DTO
BareFiles ==
    <<JavaFile(D_MODEL, N_ITEM, ITEM_JAVA),
      JavaFile(D_MODEL, N_ORDER, ORDER_JAVA),
      JavaFile(D_SECURITY, N_JWT_TOKEN_UTIL, JWT_TOKEN_UTIL_JAVA),
      JavaFile(D_WEB, N_ORDER_CONTROLLER, ORDER_CONTROLLER_JAVA)>>

\* the shop with two files that cannot be read
LockedFiles ==
    [i \in 1..Len(ShopFiles) |->
        IF ShopFiles[i].name \in {N_ORDER, N_JWT_REQUEST_FILTER}
        THEN Unreadable(ShopFiles[i]) ELSE ShopFiles[i]]

Project(java, testProps) == [java |-> java, testProps |-> testProps]

CorpusNames ==
    {"empty", "shop", "shop-noprops", "bare", "bare-noprops", "locked"}

\* the project tree of that name
CorpusOf(c) ==
    CASE c = "empty" -> Project(<<>>, NoFile)
      [] c = "shop" -> Project(ShopFiles, TestProperties(APPLICATION_TEST_PROPERTIES))
      [] c = "shop-noprops" -> Project(ShopFiles, NoFile)
      [] c = "bare" -> Project(BareFiles, TestProperties(APPLICATION_TEST_PROPERTIES))
      [] c = "bare-noprops" -> Project(BareFiles, NoFile)
      [] c = "locked" -> Project(LockedFiles, TestProperties(APPLICATION_TEST_PROPERTIES))

\* a name matches a glob pattern of literal characters and "*"
RECURSIVE GlobMatch(_, _)
GlobMatch(pattern, name) ==
    IF pattern = <<>> THEN name = <<>>
    ELSE IF Head(pattern) = "*"
         THEN \E k \in 0..Len(name) :
                 GlobMatch(Tail(pattern), SubSeq(name, k + 1, Len(name)))
         ELSE /\ name # <<>>
              /\ Head(name) = Head(pattern)
              /\ GlobMatch(Tail(pattern), Tail(name))

\* the places of java, in order, whose file passes the test "in"
RECURSIVE Matching(_, _, _)
Matching(java, in, i) ==
    IF i > Len(java) THEN <<>>
    ELSE (IF i \in in THEN <<java[i]>> ELSE <<>>) \o Matching(java, in, i + 1)

\* glob(`${srcPath}/**/${pattern}.java`)
FindJavaFiles(project, pattern) ==
    Matching(project.java,
             {i \in 1..Len(project.java) : GlobMatch(pattern, project.java[i].name)},
             1)

\* path.join(..., ...dtoPackage.split(".")): the dots become separators
PackagePath(pkg) == [i \in 1..Len(pkg) |-> IF pkg[i] = "." THEN "/" ELSE pkg[i]]

\* the directory dir is the directory at path or lies below it
Below(dir, path) == dir = path \/ MatchAt(dir, 1, path \o <<"/">>)

\* glob(`${dtoPath}/**/*.java`)
FindFilesUnder(project, pkg) ==
    Matching(project.java,
             {i \in 1..Len(project.java) : Below(project.java[i].dir, PackagePath(pkg))},
             1)

\* glob(`${srcPath}/**/*.java`)
AllJavaFiles(project) == project.java

\* path.basename(file)
Basename(f) == f.name \o JAVA_EXT

\* file.replace(projectPath, "")
RelativePath(f) == SRC_MAIN_JAVA \o f.dir \o <<"/">> \o f.name \o JAVA_EXT

(***************************************************************************)
(* Scanning a text with a regular expression that carries the g flag.      *)
(***************************************************************************)
\* the character of t at i, or no character
CharAt(t, i) == IF i \in 1..Len(t) THEN t[i] ELSE ""

\* the pattern does not match at the position asked for
NoMatch == [end |-> 0]

\* exec in a loop, matchAll: ends[i] is the position after the match that
\* starts at i (0 when none does); every match is the leftmost one at or
\* after the end of the match before it. The places the matches start at.
RECURSIVE ScanFrom(_, _)
ScanFrom(ends, from) ==
    LET starts == {i \in from..Len(ends) : ends[i] # 0}
    IN  IF starts = {} THEN <<>>
        ELSE <<Min(starts)>> \o ScanFrom(ends, ends[Min(starts)])

\* (the table of ends is worked out once, then scanned)
Scan(ends, from) == CHOOSE starts \in {ScanFrom(e, from) : e \in {ends}} : TRUE

(***************************************************************************)
(* investigateJwtClaims                                                    *)
(***************************************************************************)
DOT_GET ==
    <<".", "g", "e", "t">>

CLAIM ==
    <<"C", "l", "a", "i", "m">>

CLAIMS_GET ==
    <<"c", "l", "a", "i", "m", "s", ".", "g", "e", "t">>

GET_ID ==
    <<".", "g", "e", "t", "I", "d", "(", ")">>

GET_SUBJECT ==
    <<".", "g", "e", "t", "S", "u", "b", "j", "e", "c", "t", "(", ")">>

JTI_ACCESSOR == "getUserId() or similar"

SUB_ACCESSOR == "getEmail() or username"

MSG_NO_JWT_FILES == "No JWT utility files found. Search for files containing 'Jwt'"

REC_JWT == "Include these claims in BaseIntegrationTest.generateTestToken()"

\* \(['"]([\w_]+)['"]\) at b: the position after it and the group
QuotedWordCall(t, b) ==
    LET w == WordRunEnd(t, b + 2)
    IN  IF /\ CharAt(t, b) = "("
           /\ IsQuote(CharAt(t, b + 1))
           /\ w > b + 2
           /\ IsQuote(CharAt(t, w))
           /\ CharAt(t, w + 1) = ")"
        THEN [end |-> w + 2, g1 |-> Slice(t, b + 2, w)]
        ELSE NoMatch

\* /\.get(?:Claim)?\(['"]([\w_]+)['"]\)/ at i
GetClaimPatternAt(t, i) ==
    IF ~MatchAt(t, i, DOT_GET) THEN NoMatch
    ELSE LET a == i + Len(DOT_GET)
             b == IF MatchAt(t, a, CLAIM) THEN a + Len(CLAIM) ELSE a
         IN  QuotedWordCall(t, b)

\* /claims\.get\(['"]([\w_]+)['"]\)/ at i
CustomClaimPatternAt(t, i) ==
    IF ~MatchAt(t, i, CLAIMS_GET) THEN NoMatch
    ELSE QuotedWordCall(t, i + Len(CLAIMS_GET))

\* content.matchAll(getClaimPattern): the groups match[1], in order
GetClaimMatches(content) ==
    LET starts == Scan([i \in 1..Len(content) |-> GetClaimPatternAt(content, i).end], 1)
    IN  [k \in 1..Len(starts) |-> GetClaimPatternAt(content, starts[k]).g1]

\* content.matchAll(customClaimPattern): the groups match[1], in order
CustomClaimMatches(content) ==
    LET starts == Scan([i \in 1..Len(content) |-> CustomClaimPatternAt(content, i).end], 1)
    IN  [k \in 1..Len(starts) |-> CustomClaimPatternAt(content, starts[k]).g1]

\* what one pass of the loop over jwtFiles pushes to claims
ClaimsOfFile(content) == GetClaimMatches(content) \o CustomClaimMatches(content)

\* only jwtFiles[0] is scanned
ClaimsOfFirstFile(texts) ==
    IF texts = <<>> THEN <<>> ELSE ClaimsOfFile(Head(texts))

\* claims after the loop over the files read
RECURSIVE ClaimsPushed(_)
ClaimsPushed(texts) ==
    IF texts = <<>> THEN <<>>
    ELSE ClaimsOfFile(Head(texts)) \o ClaimsPushed(Tail(texts))

\* claimMethods after the loop: the keys set and their values
ClaimMethods(texts) ==
    LET keys == {k \in {"jti", "sub"} :
                   \E n \in 1..Len(texts) :
                      Includes(texts[n], IF k = "jti" THEN GET_ID ELSE GET_SUBJECT)}
    IN  [k \in keys |-> IF k = "jti" THEN JTI_ACCESSOR ELSE SUB_ACCESSOR]

\* the glob calls of investigateJwtClaims: [...jwtUtilFiles, ...jwtFilterFiles]
JwtFiles(project) ==
    FindJavaFiles(project, PAT_JWT_TOKEN_UTIL) \o FindJavaFiles(project, PAT_JWT_REQUEST_FILTER)

JwtNotFound == [found |-> FALSE, message |-> MSG_NO_JWT_FILES]

\* the return of investigateJwtClaims once every file of jwtFiles is read
InvestigateJwtClaims(jwtFiles, texts) ==
    [found |-> TRUE,
     file |-> Basename(jwtFiles[1]),
     standardClaims |-> ClaimMethods(texts),
     customClaims |-> Distinct(ClaimsPushed(texts)),
     recommendation |-> REC_JWT]

(***************************************************************************)
(* investigateEntityRelationships                                          *)
(***************************************************************************)
AT_MANY_TO_ONE ==
    <<"@", "M", "a", "n", "y", "T", "o", "O", "n", "e">>

AT_ONE_TO_MANY ==
    <<"@", "O", "n", "e", "T", "o", "M", "a", "n", "y">>

PRIVATE ==
    <<"p", "r", "i", "v", "a", "t", "e">>

LIST ==
    <<"L", "i", "s", "t">>

SET ==
    <<"S", "e", "t">>

EXTENDS_KW ==
    <<"e", "x", "t", "e", "n", "d", "s">>

AT_DISCRIMINATOR_COLUMN ==
    <<"@", "D", "i", "s", "c", "r", "i", "m", "i", "n", "a", "t", "o", "r",
      "C", "o", "l", "u", "m", "n">>

JOIN_COLUMN_DOT_STAR ==
    <<"@", "J", "o", "i", "n", "C", "o", "l", "u", "m", "n", ".", "*">>

DOT_STAR_NULLABLE_DOT_STAR_TRUE ==
    <<".", "*", "n", "u", "l", "l", "a", "b", "l", "e", ".", "*", "t", "r",
      "u", "e">>

ENTITY_SP ==
    <<"E", "n", "t", "i", "t", "y", " ">>

SP_NOT_FOUND ==
    <<" ", "n", "o", "t", " ", "f", "o", "u", "n", "d">>

CREATE_1 ==
    <<"1", ".", " ", "C", "r", "e", "a", "t", "e", " ">>

FIRST_REQUIRED ==
    <<" ", "f", "i", "r", "s", "t", " ", "(", "r", "e", "q", "u", "i", "r",
      "e", "d", " ", "d", "e", "p", "e", "n", "d", "e", "n", "c", "y", ")">>

CREATE_2 ==
    <<"2", ".", " ", "C", "r", "e", "a", "t", "e", " ">>

CREATE_3 ==
    <<"3", ".", " ", "C", "r", "e", "a", "t", "e", " ">>

CHILDREN ==
    <<" ", "(", "c", "h", "i", "l", "d", "r", "e", "n", ")">>

WARN_INHERITANCE ==
    <<"T", "h", "i", "s", " ", "e", "n", "t", "i", "t", "y", " ", "u", "s",
      "e", "s", " ", "i", "n", "h", "e", "r", "i", "t", "a", "n", "c", "e",
      " ", "-", " ", "u", "s", "e", " ", "s", "p", "e", "c", "i", "f", "i",
      "c", " ", "s", "u", "b", "c", "l", "a", "s", "s", ",", " ", "n", "o",
      "t", " ", "b", "a", "s", "e", " ">>

SP_CLASS ==
    <<" ", "c", "l", "a", "s", "s">>

\* null where the other values of the field are texts
NULL == <<"null">>

\* /private\s+(\w+)\s+(\w+);/ at p: the end of a relationship pattern
PrivateFieldAt(t, p) ==
    LET s1 == SpaceRunEnd(t, p + Len(PRIVATE))
        w1 == WordRunEnd(t, s1)
        s2 == SpaceRunEnd(t, w1)
        w2 == WordRunEnd(t, s2)
    IN  IF /\ MatchAt(t, p, PRIVATE)
           /\ s1 > p + Len(PRIVATE) /\ w1 > s1 /\ s2 > w1 /\ w2 > s2
           /\ CharAt(t, w2) = ";"
        THEN [end |-> w2 + 1, g1 |-> Slice(t, s1, w1), g2 |-> Slice(t, s2, w2)]
        ELSE NoMatch

\* /@ManyToOne[\s\S]*?private\s+(\w+)\s+(\w+);/ at i: the lazy gap ends at
\* the first private field declaration after the annotation
ManyToOnePatternAt(t, i) ==
    IF ~MatchAt(t, i, AT_MANY_TO_ONE) THEN NoMatch
    ELSE LET ps == {p \in (i + Len(AT_MANY_TO_ONE))..Len(t) : PrivateFieldAt(t, p).end # 0}
         IN  IF ps = {} THEN NoMatch ELSE PrivateFieldAt(t, Min(ps))

\* /private\s+(?:List|Set)<(\w+)>\s+(\w+);/ at p
PrivateCollectionAt(t, p) ==
    LET s1 == SpaceRunEnd(t, p + Len(PRIVATE))
        c  == IF MatchAt(t, s1, LIST) THEN s1 + Len(LIST)
              ELSE IF MatchAt(t, s1, SET) THEN s1 + Len(SET) ELSE 0
        w1 == WordRunEnd(t, c + 1)
        s2 == SpaceRunEnd(t, w1 + 1)
        w2 == WordRunEnd(t, s2)
    IN  IF /\ MatchAt(t, p, PRIVATE)
           /\ s1 > p + Len(PRIVATE)
           /\ c # 0 /\ CharAt(t, c) = "<"
           /\ w1 > c + 1 /\ CharAt(t, w1) = ">"
           /\ s2 > w1 + 1 /\ w2 > s2
           /\ CharAt(t, w2) = ";"
        THEN [end |-> w2 + 1, g1 |-> Slice(t, c + 1, w1), g2 |-> Slice(t, s2, w2)]
        ELSE NoMatch

\* /@OneToMany[\s\S]*?private\s+(?:List|Set)<(\w+)>\s+(\w+);/ at i
OneToManyPatternAt(t, i) ==
    IF ~MatchAt(t, i, AT_ONE_TO_MANY) THEN NoMatch
    ELSE LET ps == {p \in (i + Len(AT_ONE_TO_MANY))..Len(t) : PrivateCollectionAt(t, p).end # 0}
         IN  IF ps = {} THEN NoMatch ELSE PrivateCollectionAt(t, Min(ps))

\* the attribute of @JoinColumn that says whether the column may be empty
NULLABLE ==
    <<"n", "u", "l", "l", "a", "b", "l", "e">>

\* the attribute as written for a column that may not be empty
NULLABLE_FALSE ==
    <<"n", "u", "l", "l", "a", "b", "l", "e", " ", "=", " ", "f", "a", "l",
      "s", "e">>

\* a field is required only in a class that has no nullable marker at all
RequiredWithoutMarker(content, field) == ~Includes(content, NULLABLE)

\* !content.includes(`@JoinColumn.*${field}.*nullable.*true`): includes
\* takes the text for a literal, dots and stars included
Required(content, field) ==
    ~Includes(content, JOIN_COLUMN_DOT_STAR \o field \o DOT_STAR_NULLABLE_DOT_STAR_TRUE)

\* relationships.manyToOne after the exec loop
ManyToOne(content) ==
    LET starts == Scan([i \in 1..Len(content) |-> ManyToOnePatternAt(content, i).end], 1)
    IN  [k \in 1..Len(starts) |->
            LET m == ManyToOnePatternAt(content, starts[k])
            IN  [type |-> m.g1, field |-> m.g2, required |-> Required(content, m.g2)]]

\* relationships.oneToMany after the exec loop
OneToMany(content) ==
    LET starts == Scan([i \in 1..Len(content) |-> OneToManyPatternAt(content, i).end], 1)
    IN  [k \in 1..Len(starts) |->
            LET m == OneToManyPatternAt(content, starts[k])
            IN  [type |-> m.g1, field |-> m.g2]]

\* /extends\s+(\w+)/ at i
InheritancePatternAt(t, i) ==
    LET s == SpaceRunEnd(t, i + Len(EXTENDS_KW))
        w == WordRunEnd(t, s)
    IN  IF MatchAt(t, i, EXTENDS_KW) /\ s > i + Len(EXTENDS_KW) /\ w > s
        THEN [end |-> w, g1 |-> Slice(t, s, w)]
        ELSE NoMatch

\* inheritanceMatch ? inheritanceMatch[1] : null
Inheritance(content) ==
    LET at == {i \in 1..Len(content) : InheritancePatternAt(content, i).end # 0}
    IN  IF at = {} THEN NULL ELSE InheritancePatternAt(content, Min(at)).g1

\* a creationOrder that starts with the entity
CreationOrderEntityFirst(entityName, manyToOne, oneToMany) ==
    <<CREATE_2 \o entityName>>
    \o [k \in 1..Len(manyToOne) |-> CREATE_1 \o manyToOne[k].type \o FIRST_REQUIRED]
    \o [k \in 1..Len(oneToMany) |-> CREATE_3 \o oneToMany[k].type \o CHILDREN]

\* the creationOrder of the return
CreationOrder(entityName, manyToOne, oneToMany) ==
    [k \in 1..Len(manyToOne) |-> CREATE_1 \o manyToOne[k].type \o FIRST_REQUIRED]
    \o <<CREATE_2 \o entityName>>
    \o [k \in 1..Len(oneToMany) |-> CREATE_3 \o oneToMany[k].type \o CHILDREN]

EntityNotFound(entityName) ==
    [found |-> FALSE, message |-> ENTITY_SP \o entityName \o SP_NOT_FOUND]

\* the return of investigateEntityRelationships once entityFiles[0] is read
\* (the warning starts with a warning sign in the source)
InvestigateEntityRelationships(entityName, content) ==
    LET manyToOne == ManyToOne(content)
        oneToMany == OneToMany(content)
        hasDiscriminator == Includes(content, AT_DISCRIMINATOR_COLUMN)
    IN  [found |-> TRUE,
         entity |-> entityName,
         inheritance |-> Inheritance(content),
         discriminator |-> hasDiscriminator,
         relationships |-> [manyToOne |-> manyToOne, oneToMany |-> oneToMany,
                            oneToOne |-> <<>>, manyToMany |-> <<>>],
         creationOrder |-> CreationOrder(entityName, manyToOne, oneToMany),
         warning |-> IF hasDiscriminator
                     THEN WARN_INHERITANCE \o entityName \o SP_CLASS
                     ELSE NULL]

(***************************************************************************)
(* findMissingProperties                                                   *)
(***************************************************************************)
AT_VALUE_OPEN ==
    <<"@", "V", "a", "l", "u", "e", "(">>

DOLLAR_BRACE ==
    <<"$", "{">>

ACTION_CREATE ==
    <<"C", "r", "e", "a", "t", "e", " ", "s", "r", "c", "/", "t", "e", "s",
      "t", "/", "r", "e", "s", "o", "u", "r", "c", "e", "s", "/", "a", "p",
      "p", "l", "i", "c", "a", "t", "i", "o", "n", "-", "t", "e", "s", "t",
      ".", "p", "r", "o", "p", "e", "r", "t", "i", "e", "s", " ", "w", "i",
      "t", "h", " ", "t", "h", "e", "s", "e", " ", "p", "r", "o", "p", "e",
      "r", "t", "i", "e", "s">>

ADD_THESE ==
    <<"A", "d", "d", " ", "t", "h", "e", "s", "e", " ">>

PROPERTIES_TO ==
    <<" ", "p", "r", "o", "p", "e", "r", "t", "i", "e", "s", " ", "t", "o",
      " ", "a", "p", "p", "l", "i", "c", "a", "t", "i", "o", "n", "-", "t",
      "e", "s", "t", ".", "p", "r", "o", "p", "e", "r", "t", "i", "e", "s">>

ACTION_ALL_DEFINED ==
    <<"A", "l", "l", " ", "p", "r", "o", "p", "e", "r", "t", "i", "e", "s",
      " ", "a", "r", "e", " ", "d", "e", "f", "i", "n", "e", "d", " ", "i",
      "n", " ", "t", "e", "s", "t", " ", "c", "o", "n", "f", "i", "g">>

\* /\(["']([^"']+)["']\)/ at i: the quoted argument of any annotation
QuotedArgumentAt(t, i) ==
    LET qs == {c \in (i + 2)..Len(t) : IsQuote(t[c])}
        c  == IF qs = {} THEN 0 ELSE Min(qs)
    IN  IF /\ CharAt(t, i) = "("
           /\ IsQuote(CharAt(t, i + 1))
           /\ c > i + 2
           /\ CharAt(t, c + 1) = ")"
        THEN [end |-> c + 2, g1 |-> Slice(t, i + 2, c)]
        ELSE NoMatch

\* /@Value\(["'](\$\{[^}]+\})["']\)/ at i: [^}]+ runs to the first "}"
ValuePatternAt(t, i) ==
    LET q  == i + Len(AT_VALUE_OPEN)
        b  == q + 1 + Len(DOLLAR_BRACE)
        cs == {c \in b..Len(t) : t[c] = "}"}
        c  == IF cs = {} THEN 0 ELSE Min(cs)
    IN  IF /\ MatchAt(t, i, AT_VALUE_OPEN)
           /\ IsQuote(CharAt(t, q))
           /\ MatchAt(t, q + 1, DOLLAR_BRACE)
           /\ c > b
           /\ IsQuote(CharAt(t, c + 1))
           /\ CharAt(t, c + 2) = ")"
        THEN [end |-> c + 3, g1 |-> Slice(t, q + 1, c + 1)]
        ELSE NoMatch

\* the position after the longest run of [^:}] starting at j
RECURSIVE KeyRunEnd(_, _)
KeyRunEnd(t, j) ==
    IF j > Len(t) \/ t[j] \in {":", "}"} THEN j ELSE KeyRunEnd(t, j + 1)

\* /\$\{([^:}]+).*\}/ at j: the key, then anything on the same line up to
\* the last "}" of that line
PlaceholderAt(s, j) ==
    LET r  == KeyRunEnd(s, j + Len(DOLLAR_BRACE))
        qs == {q \in r..(LineEnd(s, r) - 1) : s[q] = "}"}
    IN  IF MatchAt(s, j, DOLLAR_BRACE) /\ r > j + Len(DOLLAR_BRACE) /\ qs # {}
        THEN [end |-> Max(qs) + 1, g1 |-> Slice(s, j + Len(DOLLAR_BRACE), r)]
        ELSE NoMatch

\* match[1].replace(/\$\{([^:}]+).*\}/, "$1"): the first match gives way
\* to its group; without match the text stays as it is
PropName(s) ==
    LET at == {j \in 1..Len(s) : PlaceholderAt(s, j).end # 0}
    IN  IF at = {} THEN s
        ELSE LET j == Min(at)
                 m == PlaceholderAt(s, j)
             IN  Slice(s, 1, j) \o m.g1 \o Slice(s, m.end, Len(s) + 1)

\* the property names one file adds, in the order of the exec loop
ValueNames(content) ==
    LET starts == Scan([i \in 1..Len(content) |-> ValuePatternAt(content, i).end], 1)
    IN  [k \in 1..Len(starts) |-> PropName(ValuePatternAt(content, starts[k]).g1)]

RECURSIVE ValueNamesOfAll(_)
ValueNamesOfAll(texts) ==
    IF texts = <<>> THEN <<>>
    ELSE ValueNames(Head(texts)) \o ValueNamesOfAll(Tail(texts))

\* an array in the place of the Set: a name is kept once for every
\* annotation that carries it
PropertiesWithRepeats(texts) == ValueNamesOfAll(texts)

\* the Set properties after the loop over javaFiles, in insertion order
Properties(texts) == Distinct(ValueNamesOfAll(texts))

\* Array.from(properties).filter((prop) => !testProps.includes(prop))
MissingProps(properties, testProps) ==
    Keep(properties, {k \in 1..Len(properties) : ~Includes(testProps, properties[k])})

\* the return of findMissingProperties once every file of javaFiles is
\* read: it reads the test properties, and returns from the catch block
\* when that fails (the last action text ends with a check mark in the
\* source)
FindMissingProperties(texts, testProps) ==
    LET properties == Properties(texts)
        missingProps == MissingProps(properties, testProps.text)
    IN  IF ~testProps.exists
        THEN [found |-> TRUE,
              totalProperties |-> Len(properties),
              missingProperties |-> properties,
              testPropertiesFileExists |-> FALSE,
              action |-> ACTION_CREATE]
        ELSE [found |-> TRUE,
              totalProperties |-> Len(properties),
              missingProperties |-> missingProps,
              testPropertiesFileExists |-> TRUE,
              action |-> IF Len(missingProps) > 0
                         THEN ADD_THESE \o NumText(Len(missingProps)) \o PROPERTIES_TO
                         ELSE ACTION_ALL_DEFINED]

(***************************************************************************)
(* investigateResponseWrapper                                              *)
(***************************************************************************)
RESPONSE_BODY_ADVICE ==
    <<"R", "e", "s", "p", "o", "n", "s", "e", "B", "o", "d", "y", "A", "d",
      "v", "i", "c", "e">>

AT_CONTROLLER_ADVICE ==
    <<"@", "C", "o", "n", "t", "r", "o", "l", "l", "e", "r", "A", "d", "v",
      "i", "c", "e">>

CLASS_KW ==
    <<"c", "l", "a", "s", "s">>

DATA ==
    <<"d", "a", "t", "a">>

NONE ==
    <<"N", "o", "n", "e">>

NOT_APPLICABLE ==
    <<"N", "/", "A">>

DOLLAR ==
    <<"$">>

DOLLAR_DOT ==
    <<"$", ".">>

REC_WRAPPED_HEAD ==
    <<"U", "s", "e", " ", "j", "s", "o", "n", "P", "a", "t", "h", "(", "\"",
      "$", ".">>

REC_WRAPPED_TAIL ==
    <<".", "i", "d", "\"", ")", " ", "i", "n", " ", "c", "o", "n", "t", "r",
      "o", "l", "l", "e", "r", " ", "t", "e", "s", "t", "s">>

REC_UNWRAPPED ==
    <<"U", "s", "e", " ", "j", "s", "o", "n", "P", "a", "t", "h", "(", "\"",
      "$", ".", "i", "d", "\"", ")", " ", "d", "i", "r", "e", "c", "t", "l",
      "y", " ", "i", "n", " ", "c", "o", "n", "t", "r", "o", "l", "l", "e",
      "r", " ", "t", "e", "s", "t", "s">>

\* /class\s+\w+\s*\{[^}]*(\w+)\s*:/ at i: [^}]* takes all it can before the
\* first "}", so the group is what is left of the last word before a colon
WrapperPatternAt(t, i) ==
    LET s  == SpaceRunEnd(t, i + Len(CLASS_KW))
        b  == SpaceRunEnd(t, WordRunEnd(t, s))
        cs == {c \in (b + 1)..Len(t) : t[c] = "}"}
        l  == IF cs = {} THEN Len(t) + 1 ELSE Min(cs)
        xs == {x \in (b + 1)..(l - 1) :
                 /\ IsWord(t[x])
                 /\ CharAt(t, SpaceRunEnd(t, WordRunEnd(t, x))) = ":"}
    IN  IF /\ MatchAt(t, i, CLASS_KW)
           /\ s > i + Len(CLASS_KW)
           /\ WordRunEnd(t, s) > s
           /\ CharAt(t, b) = "{"
           /\ xs # {}
        THEN [end |-> SpaceRunEnd(t, WordRunEnd(t, Max(xs))) + 1,
              g1 |-> Slice(t, Max(xs), WordRunEnd(t, Max(xs)))]
        ELSE NoMatch

\* content.match(wrapperPattern): the first match, or none
WrapperMatch(content) ==
    LET at == {i \in 1..Len(content) : WrapperPatternAt(content, i).end # 0}
    IN  IF at = {} THEN NoMatch ELSE WrapperPatternAt(content, Min(at))

\* the glob calls of investigateResponseWrapper: [...adviceFiles, ...configFiles]
WrapperFiles(project) ==
    FindJavaFiles(project, PAT_ADVICE) \o FindJavaFiles(project, PAT_RESPONSE)

IsWrapper(content) ==
    Includes(content, RESPONSE_BODY_ADVICE) \/ Includes(content, AT_CONTROLLER_ADVICE)

\* hasWrapper, wrapperClass and wrapperField after the loop over the files
\* from place k on, w being what they are before it
RECURSIVE WrapperLoop(_, _, _, _)
WrapperLoop(allFiles, texts, k, w) ==
    IF k > Len(allFiles) THEN w
    ELSE LET m == WrapperMatch(texts[k])
         IN  WrapperLoop(allFiles, texts, k + 1,
                IF IsWrapper(texts[k])
                THEN [hasWrapper |-> TRUE,
                      wrapperClass |-> allFiles[k].name,
                      wrapperField |-> IF m.end # 0 THEN m.g1 ELSE w.wrapperField]
                ELSE w)

\* the return of investigateResponseWrapper once every file is read
InvestigateResponseWrapper(allFiles, texts) ==
    LET w == WrapperLoop(allFiles, texts, 1,
                 [hasWrapper |-> FALSE, wrapperClass |-> <<>>, wrapperField |-> DATA])
    IN  [hasWrapper |-> w.hasWrapper,
         wrapperClass |-> IF w.hasWrapper THEN w.wrapperClass ELSE NONE,
         wrapperField |-> IF w.hasWrapper THEN w.wrapperField ELSE NOT_APPLICABLE,
         jsonPathPrefix |-> IF w.hasWrapper THEN DOLLAR_DOT \o w.wrapperField ELSE DOLLAR,
         recommendation |-> IF w.hasWrapper
                            THEN REC_WRAPPED_HEAD \o w.wrapperField \o REC_WRAPPED_TAIL
                            ELSE REC_UNWRAPPED]

(***************************************************************************)
(* checkJsonNamingStrategy                                                 *)
(***************************************************************************)
AT_JSON_NAMING_SNAKE ==
    <<"@", "J", "s", "o", "n", "N", "a", "m", "i", "n", "g", "(", "P", "r",
      "o", "p", "e", "r", "t", "y", "N", "a", "m", "i", "n", "g", "S", "t",
      "r", "a", "t", "e", "g", "i", "e", "s", ".", "S", "n", "a", "k", "e",
      "C", "a", "s", "e", "S", "t", "r", "a", "t", "e", "g", "y">>

AT_JSON_NAMING ==
    <<"@", "J", "s", "o", "n", "N", "a", "m", "i", "n", "g">>

REC_SNAKE_CASE == "Use snake_case in JSON: {\"company_id\": 100}"

REC_CAMEL_CASE == "Use camelCase in JSON: {\"companyId\": 100}"

\* the key of strategies one file counts for
StrategyOf(content) ==
    IF Includes(content, AT_JSON_NAMING_SNAKE) THEN "snake_case"
    ELSE IF Includes(content, AT_JSON_NAMING) THEN "other"
    ELSE "camelCase"

\* Object.entries(strategies): the keys in the order they were first set,
\* each with its count
Strategies(texts) ==
    LET of == [k \in 1..Len(texts) |-> StrategyOf(texts[k])]
        keys == Distinct(of)
    IN  [n \in 1..Len(keys) |->
            [name |-> keys[n],
             count |-> Cardinality({k \in 1..Len(of) : of[k] = keys[n]})]]

\* entries.sort((a, b) => b[1] - a[1])[0]: the sort is stable, so of the
\* entries with the highest count the one set first comes first
Primary(entries) ==
    LET best == {n \in 1..Len(entries) :
                   \A o \in 1..Len(entries) : entries[o].count <= entries[n].count}
    IN  entries[Min(best)]

\* the return of checkJsonNamingStrategy once every file of dtoFiles is read
CheckJsonNamingStrategy(dtoPackage, dtoFiles, texts) ==
    LET strategies == Strategies(texts)
    IN  [dtoPackage |-> dtoPackage,
         filesAnalyzed |-> Len(dtoFiles),
         strategies |-> strategies,
         primaryStrategy |-> IF strategies # <<>> THEN Primary(strategies).name
                             ELSE "camelCase",
         recommendation |-> IF strategies # <<>> /\ Primary(strategies).name = "snake_case"
                            THEN REC_SNAKE_CASE ELSE REC_CAMEL_CASE]

(***************************************************************************)
(* findBeansNeedingExclusion                                               *)
(***************************************************************************)
AT_CONFIGURATION ==
    <<"@", "C", "o", "n", "f", "i", "g", "u", "r", "a", "t", "i", "o", "n">>

AT_SERVICE ==
    <<"@", "S", "e", "r", "v", "i", "c", "e">>

AT_COMPONENT ==
    <<"@", "C", "o", "m", "p", "o", "n", "e", "n", "t">>

AT_PROFILE ==
    <<"@", "P", "r", "o", "f", "i", "l", "e">>

KW_AWS ==
    <<"a", "w", "s">>

KW_TENANT ==
    <<"t", "e", "n", "a", "n", "t">>

KW_SECRET ==
    <<"s", "e", "c", "r", "e", "t">>

KW_S3 ==
    <<"s", "3">>

KW_DYNAMO ==
    <<"d", "y", "n", "a", "m", "o">>

KW_SQS ==
    <<"s", "q", "s">>

KW_SNS ==
    <<"s", "n", "s">>

REC_ADD_PROFILE_HEAD ==
    <<"A", "d", "d", " ", "@", "P", "r", "o", "f", "i", "l", "e", "(", "\"",
      "!", "t", "e", "s", "t", "\"", ")", " ", "t", "o", " ", "t", "h", "e",
      "s", "e", " ">>

REC_ADD_PROFILE_TAIL ==
    <<" ", "c", "l", "a", "s", "s", "e", "s">>

REC_NO_BEANS ==
    <<"N", "o", " ", "b", "e", "a", "n", "s", " ", "f", "o", "u", "n", "d",
      " ", "t", "h", "a", "t", " ", "n", "e", "e", "d", " ", "e", "x", "c",
      "l", "u", "s", "i", "o", "n">>

ACTION_ADD_PROFILE == "Add: @Profile(\"!test\") above @Configuration/@Service/@Component"

keywords == <<KW_AWS, KW_TENANT, KW_SECRET, KW_S3, KW_DYNAMO, KW_SQS, KW_SNS>>

\* keywords.filter(k => fileName.toLowerCase().includes(k) ||
\* content.toLowerCase().includes(k))
Reason(fileName, content) ==
    Keep(keywords,
         {k \in 1..Len(keywords) :
             \/ Includes(ToLowerCase(fileName), keywords[k])
             \/ Includes(ToLowerCase(content), keywords[k])})

IsBean(content) ==
    \/ Includes(content, AT_CONFIGURATION)
    \/ Includes(content, AT_SERVICE)
    \/ Includes(content, AT_COMPONENT)

\* the file is pushed to beansToExclude
NeedsExclusion(f, content) ==
    /\ IsBean(content)
    /\ Reason(f.name, content) # <<>>
    /\ ~Includes(content, AT_PROFILE)

\* beansToExclude after the loop over javaFiles
BeansToExclude(javaFiles, texts) ==
    LET hit == Keep([k \in 1..Len(javaFiles) |-> k],
                    {k \in 1..Len(javaFiles) : NeedsExclusion(javaFiles[k], texts[k])})
    IN  [n \in 1..Len(hit) |->
            [file |-> javaFiles[hit[n]].name,
             path |-> RelativePath(javaFiles[hit[n]]),
             reason |-> Reason(javaFiles[hit[n]].name, texts[hit[n]])]]

\* the return of findBeansNeedingExclusion once every file is read
FindBeansNeedingExclusion(javaFiles, texts) ==
    LET beansToExclude == BeansToExclude(javaFiles, texts)
    IN  [found |-> Len(beansToExclude),
         beansToExclude |-> beansToExclude,
         recommendation |-> IF Len(beansToExclude) > 0
                            THEN REC_ADD_PROFILE_HEAD \o NumText(Len(beansToExclude))
                                 \o REC_ADD_PROFILE_TAIL
                            ELSE REC_NO_BEANS,
         action |-> ACTION_ADD_PROFILE]

(***************************************************************************)
(* analyzeController                                                       *)
(***************************************************************************)
GET ==
    <<"G", "e", "t">>

POST ==
    <<"P", "o", "s", "t">>

PUT ==
    <<"P", "u", "t">>

DELETE ==
    <<"D", "e", "l", "e", "t", "e">>

PATCH ==
    <<"P", "a", "t", "c", "h">>

MAPPING_OPEN ==
    <<"M", "a", "p", "p", "i", "n", "g", "(">>

PUBLIC ==
    <<"p", "u", "b", "l", "i", "c">>

AT_REQUEST_MAPPING_OPEN ==
    <<"@", "R", "e", "q", "u", "e", "s", "t", "M", "a", "p", "p", "i", "n",
      "g", "(">>

AT_PRE_AUTHORIZE ==
    <<"@", "P", "r", "e", "A", "u", "t", "h", "o", "r", "i", "z", "e">>

AT_PERMIT_ALL ==
    <<"@", "P", "e", "r", "m", "i", "t", "A", "l", "l">>

CONTROLLER_SP ==
    <<"C", "o", "n", "t", "r", "o", "l", "l", "e", "r", " ">>

WRITE_TESTS_FOR ==
    <<"W", "r", "i", "t", "e", " ", "t", "e", "s", "t", "s", " ", "f", "o",
      "r", " ">>

SP_ENDPOINTS ==
    <<" ", "e", "n", "d", "p", "o", "i", "n", "t", "s">>

REC_AUTH_FIRST == "Write auth tests first (401 unauthorized)"

REC_NO_AUTH == "No auth required"

\* (Get|Post|Put|Delete|Patch)
VERBS == <<GET, POST, PUT, DELETE, PATCH>>

\* the position after the longest run of [\w<>] starting at j
RECURSIVE TypeRunEnd(_, _)
TypeRunEnd(t, j) ==
    IF j > Len(t) \/ ~(IsWord(t[j]) \/ t[j] \in {"<", ">"}) THEN j
    ELSE TypeRunEnd(t, j + 1)

\* the first position at or after j that holds a quote, 0 when none does
NextQuote(t, j) ==
    LET qs == {q \in j..Len(t) : IsQuote(t[q])}
    IN  IF qs = {} THEN 0 ELSE Min(qs)

\* the first position at or after j that holds ")", 0 when none does
NextParen(t, j) ==
    LET rs == {r \in j..Len(t) : t[r] = ")"}
    IN  IF rs = {} THEN 0 ELSE Min(rs)

\* /\s+public\s+[\w<>]+\s+(\w+)/ at p
PublicMethodAt(t, p) ==
    LET s1 == SpaceRunEnd(t, p)
        s2 == SpaceRunEnd(t, s1 + Len(PUBLIC))
        ty == TypeRunEnd(t, s2)
        s3 == SpaceRunEnd(t, ty)
        w  == WordRunEnd(t, s3)
    IN  IF /\ s1 > p
           /\ MatchAt(t, s1, PUBLIC)
           /\ s2 > s1 + Len(PUBLIC) /\ ty > s2 /\ s3 > ty /\ w > s3
        THEN [end |-> w, g1 |-> Slice(t, s3, w)]
        ELSE NoMatch

\* /["']([^"']+)["'][^)]*\)\s+public\s+[\w<>]+\s+(\w+)/ at the quote q: the
\* path runs to the next quote, the arguments to the next ")"
QuotedPathAt(t, q) ==
    LET q2 == NextQuote(t, q + 1)
        r  == IF q2 = 0 THEN 0 ELSE NextParen(t, q2 + 1)
        m  == PublicMethodAt(t, r + 1)
    IN  IF IsQuote(CharAt(t, q)) /\ q2 > q + 1 /\ r # 0 /\ m.end # 0
        THEN [end |-> m.end, g2 |-> Slice(t, q + 1, q2), g3 |-> m.g1]
        ELSE NoMatch

\* mappingPattern at i: the first [^)]* takes all it can, so the path is
\* the last quoted text of the arguments from which the rest still matches
MappingPatternAt(t, i) ==
    LET vs == {k \in 1..Len(VERBS) :
                 CharAt(t, i) = "@" /\ MatchAt(t, i + 1, VERBS[k] \o MAPPING_OPEN)}
        v  == VERBS[Min(vs)]
        a  == i + 1 + Len(v) + Len(MAPPING_OPEN)
        r  == NextParen(t, a)
        qs == {q \in a..(r - 1) : QuotedPathAt(t, q).end # 0}
    IN  IF vs = {} THEN NoMatch
        ELSE IF r = 0 \/ qs = {} THEN NoMatch
        ELSE LET m == QuotedPathAt(t, Max(qs))
             IN  [end |-> m.end, g1 |-> v, g2 |-> m.g2, g3 |-> m.g3]

\* endpoints after the exec loop
Endpoints(content) ==
    LET Push(m) ==
            [method |-> ToUpperCase(m.g1), path |-> m.g2, handlerMethod |-> m.g3]
        Loop(starts) ==
            [k \in 1..Len(starts) |-> Push(MappingPatternAt(content, starts[k]))]
    IN  Loop(Scan([i \in 1..Len(content) |-> MappingPatternAt(content, i).end], 1))

\* /@RequestMapping\(["']([^"']+)["']\)/ at i
BasePathPatternAt(t, i) ==
    LET q  == i + Len(AT_REQUEST_MAPPING_OPEN)
        q2 == NextQuote(t, q + 1)
    IN  IF /\ MatchAt(t, i, AT_REQUEST_MAPPING_OPEN)
           /\ IsQuote(CharAt(t, q))
           /\ q2 > q + 1
           /\ CharAt(t, q2 + 1) = ")"
        THEN [end |-> q2 + 2, g1 |-> Slice(t, q + 1, q2)]
        ELSE NoMatch

\* basePathMatch ? basePathMatch[1] : ""
BasePath(content) ==
    LET at == {i \in 1..Len(content) : BasePathPatternAt(content, i).end # 0}
    IN  IF at = {} THEN <<>> ELSE BasePathPatternAt(content, Min(at)).g1

RequiresAuth(content) ==
    Includes(content, AT_PRE_AUTHORIZE) \/ ~Includes(content, AT_PERMIT_ALL)

ControllerNotFound(controllerName) ==
    [found |-> FALSE, message |-> CONTROLLER_SP \o controllerName \o SP_NOT_FOUND]

\* the return of analyzeController once controllerFiles[0] is read
AnalyzeController(controllerName, content) ==
    LET Returned(endpoints, basePath, requiresAuth) ==
            [found |-> TRUE,
             controller |-> controllerName,
             basePath |-> basePath,
             requiresAuth |-> requiresAuth,
             endpointCount |-> Len(endpoints),
             endpoints |-> [k \in 1..Len(endpoints) |->
                               [method |-> endpoints[k].method,
                                path |-> endpoints[k].path,
                                handlerMethod |-> endpoints[k].handlerMethod,
                                fullPath |-> basePath \o endpoints[k].path]],
             testRecommendation |->
                 [authTests |-> IF requiresAuth THEN REC_AUTH_FIRST ELSE REC_NO_AUTH,
                  crudTests |->
                      WRITE_TESTS_FOR \o NumText(Len(endpoints)) \o SP_ENDPOINTS]]
    IN  Returned(Endpoints(content), BasePath(content), RequiresAuth(content))

(***************************************************************************)
(* analyzeRepository                                                       *)
(***************************************************************************)
AT_QUERY ==
    <<"@", "Q", "u", "e", "r", "y">>

FIND ==
    <<"f", "i", "n", "d">>

COUNT ==
    <<"c", "o", "u", "n", "t">>

EXISTS ==
    <<"e", "x", "i", "s", "t", "s">>

DELETE_PREFIX ==
    <<"d", "e", "l", "e", "t", "e">>

AT_WHERE ==
    <<"@", "W", "h", "e", "r", "e">>

DELETED ==
    <<"d", "e", "l", "e", "t", "e", "d">>

REPOSITORY_SP ==
    <<"R", "e", "p", "o", "s", "i", "t", "o", "r", "y", " ">>

WARN_SOFT_DELETE ==
    <<"A", "l", "w", "a", "y", "s", " ", "s", "e", "t", " ", ".", "d", "e",
      "l", "e", "t", "e", "d", "(", "f", "a", "l", "s", "e", ")", " ", "i",
      "n", " ", "t", "e", "s", "t", " ", "d", "a", "t", "a">>

MAX_METHODS == 10

REC_CUSTOM_QUERY == "Write tests for custom @Query methods"

REC_STANDARD_METHODS == "Standard Spring Data methods can use template"

\* /\s*([\w<>]+)\s+(\w+)\s*\([^)]*\)/ at p
MethodSignatureAt(t, p) ==
    LET s1 == SpaceRunEnd(t, p)
        ty == TypeRunEnd(t, s1)
        s2 == SpaceRunEnd(t, ty)
        w  == WordRunEnd(t, s2)
        s3 == SpaceRunEnd(t, w)
        r  == NextParen(t, s3 + 1)
    IN  IF ty > s1 /\ s2 > ty /\ w > s2 /\ CharAt(t, s3) = "(" /\ r # 0
        THEN [end |-> r + 1, g1 |-> Slice(t, s1, ty), g2 |-> Slice(t, s2, w)]
        ELSE NoMatch

\* /(?:@Query[^)]*\))?\s*([\w<>]+)\s+(\w+)\s*\([^)]*\)/ at i: with the
\* annotation when it stands at i, and without it otherwise
MethodPatternAt(t, i) ==
    LET r == NextParen(t, i + Len(AT_QUERY))
    IN  IF MatchAt(t, i, AT_QUERY) /\ r # 0 /\ MethodSignatureAt(t, r + 1).end # 0
        THEN MethodSignatureAt(t, r + 1)
        ELSE MethodSignatureAt(t, i)

IsQueryMethod(name) ==
    \/ StartsWith(name, FIND) \/ StartsWith(name, COUNT)
    \/ StartsWith(name, EXISTS) \/ StartsWith(name, DELETE_PREFIX)

\* content.includes(`@Query`) && content.indexOf(`@Query`) < content.indexOf(match[2])
IsCustomQuery(content, name) ==
    Includes(content, AT_QUERY) /\ IndexOf(content, AT_QUERY) < IndexOf(content, name)

\* queryMethods after the exec loop
QueryMethods(content) ==
    LET starts == Scan([i \in 1..Len(content) |-> MethodPatternAt(content, i).end], 1)
        kept == Keep(starts, {k \in 1..Len(starts) :
                                IsQueryMethod(MethodPatternAt(content, starts[k]).g2)})
    IN  [k \in 1..Len(kept) |->
            LET m == MethodPatternAt(content, kept[k])
            IN  [returnType |-> m.g1, methodName |-> m.g2,
                 isCustomQuery |-> IsCustomQuery(content, m.g2)]]

RepositoryNotFound(repositoryName) ==
    [found |-> FALSE, message |-> REPOSITORY_SP \o repositoryName \o SP_NOT_FOUND]

\* the return of analyzeRepository once repoFiles[0] is read (the warning
\* starts with a warning sign in the source)
AnalyzeRepository(repositoryName, content) ==
    LET queryMethods == QueryMethods(content)
        hasSoftDelete == Includes(content, AT_WHERE) /\ Includes(content, DELETED)
    IN  [found |-> TRUE,
         repository |-> repositoryName,
         queryMethodCount |-> Len(queryMethods),
         queryMethods |-> SliceFirst(queryMethods, MAX_METHODS),
         hasSoftDelete |-> hasSoftDelete,
         testRecommendation |->
             [softDeleteWarning |-> IF hasSoftDelete THEN WARN_SOFT_DELETE ELSE NULL,
              customQueryTests |->
                  IF \E k \in 1..Len(queryMethods) : queryMethods[k].isCustomQuery
                  THEN REC_CUSTOM_QUERY ELSE REC_STANDARD_METHODS]]

(***************************************************************************)
(* investigateService                                                      *)
(***************************************************************************)
AT_AUTOWIRED ==
    <<"@", "A", "u", "t", "o", "w", "i", "r", "e", "d">>

REPOSITORY ==
    <<"R", "e", "p", "o", "s", "i", "t", "o", "r", "y">>

THROW_KW ==
    <<"t", "h", "r", "o", "w">>

NEW_KW ==
    <<"n", "e", "w">>

EXCEPTION ==
    <<"E", "x", "c", "e", "p", "t", "i", "o", "n">>

AT_TRANSACTIONAL ==
    <<"@", "T", "r", "a", "n", "s", "a", "c", "t", "i", "o", "n", "a", "l">>

SERVICE_SP ==
    <<"S", "e", "r", "v", "i", "c", "e", " ">>

AUTOWIRE ==
    <<"A", "u", "t", "o", "w", "i", "r", "e", ":", " ">>

SP_AND_SP ==
    <<" ", "a", "n", "d", " ">>

COMMA_SP ==
    <<",", " ">>

TEST_SP ==
    <<"T", "e", "s", "t", " ">>

SP_PUBLIC_METHODS ==
    <<" ", "p", "u", "b", "l", "i", "c", " ", "m", "e", "t", "h", "o", "d",
      "s">>

REC_NO_EXCEPTION_TESTS ==
    <<"N", "o", " ", "e", "x", "p", "l", "i", "c", "i", "t", " ", "e", "x",
      "c", "e", "p", "t", "i", "o", "n", " ", "t", "e", "s", "t", "s", " ",
      "n", "e", "e", "d", "e", "d">>

\* /(\w+Repository)\s+\w+/ at x: a word that ends with Repository after at
\* least one other character, white space, and a word
RepositoryFieldAt(t, x) ==
    LET e == WordRunEnd(t, x)
        s == SpaceRunEnd(t, e)
    IN  IF /\ e - x > Len(REPOSITORY)
           /\ MatchAt(t, e - Len(REPOSITORY), REPOSITORY)
           /\ s > e
           /\ WordRunEnd(t, s) > s
        THEN [end |-> WordRunEnd(t, s), g1 |-> Slice(t, x, e)]
        ELSE NoMatch

\* /@Autowired\s+(?:private\s+)?(\w+Repository)\s+\w+/ at i: with the
\* modifier first, without it when that fails
AutowiredPatternAt(t, i) ==
    LET s1 == SpaceRunEnd(t, i + Len(AT_AUTOWIRED))
        s2 == SpaceRunEnd(t, s1 + Len(PRIVATE))
    IN  IF ~(MatchAt(t, i, AT_AUTOWIRED) /\ s1 > i + Len(AT_AUTOWIRED)) THEN NoMatch
        ELSE IF /\ MatchAt(t, s1, PRIVATE) /\ s2 > s1 + Len(PRIVATE)
                /\ RepositoryFieldAt(t, s2).end # 0
             THEN RepositoryFieldAt(t, s2)
             ELSE RepositoryFieldAt(t, s1)

\* repositories after the exec loop
Repositories(content) ==
    LET starts == Scan([i \in 1..Len(content) |-> AutowiredPatternAt(content, i).end], 1)
    IN  [k \in 1..Len(starts) |-> AutowiredPatternAt(content, starts[k]).g1]

\* /public\s+[\w<>]+\s+(\w+)\s*\(/ at i
ServiceMethodPatternAt(t, i) ==
    LET s1 == SpaceRunEnd(t, i + Len(PUBLIC))
        ty == TypeRunEnd(t, s1)
        s2 == SpaceRunEnd(t, ty)
        w  == WordRunEnd(t, s2)
        s3 == SpaceRunEnd(t, w)
    IN  IF /\ MatchAt(t, i, PUBLIC)
           /\ s1 > i + Len(PUBLIC) /\ ty > s1 /\ s2 > ty /\ w > s2
           /\ CharAt(t, s3) = "("
        THEN [end |-> s3 + 1, g1 |-> Slice(t, s2, w)]
        ELSE NoMatch

\* publicMethods after the exec loop
PublicMethods(content) ==
    LET starts == Scan([i \in 1..Len(content) |-> ServiceMethodPatternAt(content, i).end], 1)
    IN  [k \in 1..Len(starts) |-> ServiceMethodPatternAt(content, starts[k]).g1]

\* /throw\s+new\s+(\w+Exception)/ at i: \w+ gives back characters until
\* Exception follows, so the group ends with the last Exception of the word
ThrowPatternAt(t, i) ==
    LET s1 == SpaceRunEnd(t, i + Len(THROW_KW))
        s2 == SpaceRunEnd(t, s1 + Len(NEW_KW))
        e  == WordRunEnd(t, s2)
        ps == {p \in (s2 + 1)..(e - Len(EXCEPTION)) : MatchAt(t, p, EXCEPTION)}
    IN  IF /\ MatchAt(t, i, THROW_KW)
           /\ s1 > i + Len(THROW_KW)
           /\ MatchAt(t, s1, NEW_KW)
           /\ s2 > s1 + Len(NEW_KW)
           /\ ps # {}
        THEN [end |-> Max(ps) + Len(EXCEPTION), g1 |-> Slice(t, s2, Max(ps) + Len(EXCEPTION))]
        ELSE NoMatch

\* exceptions after the exec loop: each type once, where it came first
Exceptions(content) ==
    LET starts == Scan([i \in 1..Len(content) |-> ThrowPatternAt(content, i).end], 1)
    IN  Distinct([k \in 1..Len(starts) |-> ThrowPatternAt(content, starts[k]).g1])

\* Array.prototype.join
RECURSIVE Join(_, _)
Join(list, sep) ==
    IF list = <<>> THEN <<>>
    ELSE IF Len(list) = 1 THEN list[1]
    ELSE list[1] \o sep \o Join(Tail(list), sep)

ServiceNotFound(serviceName) ==
    [found |-> FALSE, message |-> SERVICE_SP \o serviceName \o SP_NOT_FOUND]

\* the return of investigateService once serviceFiles[0] is read
InvestigateService(serviceName, content) ==
    LET repositories == Repositories(content)
        publicMethods == PublicMethods(content)
        exceptions == Exceptions(content)
    IN  [found |-> TRUE,
         service |-> serviceName,
         isTransactional |-> Includes(content, AT_TRANSACTIONAL),
         repositoryDependencies |-> repositories,
         publicMethodCount |-> Len(publicMethods),
         publicMethods |-> SliceFirst(publicMethods, MAX_METHODS),
         exceptionTypes |-> exceptions,
         testRecommendation |->
             [setup |-> AUTOWIRE \o serviceName \o SP_AND_SP \o Join(repositories, COMMA_SP),
              happyPath |-> TEST_SP \o NumText(Len(publicMethods)) \o SP_PUBLIC_METHODS,
              exceptions |-> IF Len(exceptions) > 0
                             THEN WRITE_TESTS_FOR \o Join(exceptions, COMMA_SP)
                             ELSE REC_NO_EXCEPTION_TESTS]]

(***************************************************************************)
(* One extractor invocation, from the call to its return, run up to        *)
(* MaxRuns times on the same project with the same argument, while         *)
(* check_environment probes for a container runtime.                       *)
(***************************************************************************)
(***************************************************************************)
(* checkSpringBootVersion                                                  *)
(***************************************************************************)
UNKNOWN ==
    <<"U", "n", "k", "n", "o", "w", "n">>

\* the argument of springBootVersion.startsWith
THREE ==
    <<"3">>

JAKARTA_PERSISTENCE ==
    <<"j", "a", "k", "a", "r", "t", "a", ".", "p", "e", "r", "s", "i", "s",
      "t", "e", "n", "c", "e", ".", "*">>

JAVAX_PERSISTENCE ==
    <<"j", "a", "v", "a", "x", ".", "p", "e", "r", "s", "i", "s", "t", "e",
      "n", "c", "e", ".", "*">>

USE_JAKARTA ==
    <<"U", "s", "e", " ", "j", "a", "k", "a", "r", "t", "a", ".", "p", "e",
      "r", "s", "i", "s", "t", "e", "n", "c", "e", ".", "*", " ", "i", "m",
      "p", "o", "r", "t", "s">>

USE_JAVAX ==
    <<"U", "s", "e", " ", "j", "a", "v", "a", "x", ".", "p", "e", "r", "s",
      "i", "s", "t", "e", "n", "c", "e", ".", "*", " ", "i", "m", "p", "o",
      "r", "t", "s">>

JUNIT_17 ==
    <<"U", "s", "e", " ", "J", "U", "n", "i", "t", " ", "5", ".", "1", "0",
      "+", ",", " ", "M", "o", "c", "k", "i", "t", "o", " ", "5", ".", "x",
      "+">>

JUNIT_11 ==
    <<"U", "s", "e", " ", "J", "U", "n", "i", "t", " ", "5", ".", "1", "1",
      ".", "4", ",", " ", "M", "o", "c", "k", "i", "t", "o", " ", "5", ".",
      "1", "4", ".", "2", " ", "(", "J", "a", "v", "a", " ", "1", "1", " ",
      "c", "o", "m", "p", "a", "t", "i", "b", "l", "e", ")">>

OPENS_17 ==
    <<"A", "d", "d", " ", "-", "-", "a", "d", "d", "-", "o", "p", "e", "n",
      "s", " ", "f", "l", "a", "g", "s", " ", "t", "o", " ", "m", "a", "v",
      "e", "n", "-", "s", "u", "r", "e", "f", "i", "r", "e", "-", "p", "l",
      "u", "g", "i", "n">>

OPENS_11 ==
    <<"M", "o", "d", "u", "l", "e", " ", "o", "p", "e", "n", "s", " ", "o",
      "p", "t", "i", "o", "n", "a", "l", " ", "b", "u", "t", " ", "r", "e",
      "c", "o", "m", "m", "e", "n", "d", "e", "d", " ", "f", "o", "r", " ",
      "O", "r", "i", "k", "a">>

COULD_NOT_PARSE_POM ==
    <<"C", "o", "u", "l", "d", " ", "n", "o", "t", " ", "p", "a", "r", "s",
      "e", " ", "p", "o", "m", ".", "x", "m", "l">>

ENSURE_POM ==
    <<"E", "n", "s", "u", "r", "e", " ", "p", "o", "m", ".", "x", "m", "l",
      " ", "e", "x", "i", "s", "t", "s", " ", "a", "n", "d", " ", "i", "s",
      " ", "v", "a", "l", "i", "d", " ", "X", "M", "L">>

\* version texts of the manifests
V_3_2_0 ==
    <<"3", ".", "2", ".", "0">>

V_2_7_18 ==
    <<"2", ".", "7", ".", "1", "8">>

V_4_0_0 ==
    <<"4", ".", "0", ".", "0">>

V_3_2 ==
    <<"3", ".", "2">>

V_3_1_5 ==
    <<"3", ".", "1", ".", "5">>

\* language levels of the manifests
J_17 ==
    <<"1", "7">>

J_11 ==
    <<"1", "1">>

J_1_8 ==
    <<"1", ".", "8">>

J_21 ==
    <<"2", "1">>

JAVA_17 == 17

\* a tag the document does not hold
ABSENT == [kind |-> "undefined", text |-> <<>>]

\* the text of a tag is a decimal number: digits, at most one "." among
\* them, a digit at its end
IsNumeric(text) ==
    /\ text # <<>>
    /\ \A k \in 1..Len(text) : IsDigit(text[k]) \/ text[k] = "."
    /\ Cardinality({k \in 1..Len(text) : text[k] = "."}) <= 1
    /\ IsDigit(text[Len(text)])

\* XMLParser with its default options (parseTagValue): the text of a tag
\* that reads as a number becomes a number, any other text stays a string
TagValue(text) ==
    IF IsNumeric(text) THEN [kind |-> "number", text |-> text]
    ELSE [kind |-> "string", text |-> text]

\* the value is truthy: a string that is not empty, a number that is not 0
Truthy(v) ==
    \/ v.kind = "string" /\ v.text # <<>>
    \/ v.kind = "number" /\ \E k \in 1..Len(v.text) : v.text[k] \notin {"0", "."}

\* a || b || c
Or3(a, b, c) == IF Truthy(a) THEN a ELSE IF Truthy(b) THEN b ELSE c

\* parseInt(v) >= 17: parseInt reads the digits v starts with, and NaN,
\* its value when v starts with none, is not >= 17
ParseIntAtLeast17(v) ==
    LET e == DigitRunEnd(v.text, 1)
    IN  e > 1 /\ ParseInt(SubSeq(v.text, 1, e - 1)) >= JAVA_17

\* the pom.xml of a project: whether readFile can open it, how its text
\* is formed, and the texts of the four tags checkSpringBootVersion reads
Pom(form, parent, boot, java, source) ==
    [form |-> form,
     parentVersion |-> parent, bootVersion |-> boot,
     javaVersion |-> java, compilerSource |-> source]

\* the framework versions of the manifests: project.parent.version or,
\* without it, project.properties["spring-boot.version"]
BootVersions ==
    {<<TagValue(v), ABSENT>> : v \in {V_3_2_0, V_2_7_18, V_4_0_0, V_3_2}}
    \cup {<<ABSENT, ABSENT>>, <<ABSENT, TagValue(V_3_1_5)>>}

\* the language levels of the manifests: java.version or, without it,
\* maven.compiler.source
JavaVersions ==
    {<<TagValue(v), ABSENT>> : v \in {J_17, J_11, J_1_8}}
    \cup {<<ABSENT, ABSENT>>, <<ABSENT, TagValue(J_21)>>}

\* the manifests checkSpringBootVersion is called on.  A text that is not
\* well-formed XML either stops the parser ("open-comment": a comment that
\* is not closed) or does not ("truncated": the closing tag of project is
\* missing; the parser does not validate and returns what it has read).
Manifests ==
    {Pom("well-formed", b[1], b[2], j[1], j[2]) : b \in BootVersions, j \in JavaVersions}
    \cup {Pom(f, TagValue(V_3_2_0), ABSENT, TagValue(J_17), ABSENT) :
             f \in {"missing", "unreadable", "truncated", "open-comment"}}

\* the catch block
ManifestParseFailure == [error |-> COULD_NOT_PARSE_POM, message |-> ENSURE_POM]

\* the try block after parser.parse has returned pom; startsWith is no
\* method of a number: the TypeError lands in the catch block
VersionInfo(pom) ==
    LET Returns(springBootVersion, javaVersion) ==
            LET Flags(isSpringBoot3, isJava17Plus) ==
                    [springBootVersion |-> springBootVersion,
                     javaVersion |-> javaVersion,
                     isSpringBoot3 |-> isSpringBoot3,
                     persistenceApi |->
                         IF isSpringBoot3 THEN JAKARTA_PERSISTENCE ELSE JAVAX_PERSISTENCE,
                     recommendations |->
                         [imports |-> IF isSpringBoot3 THEN USE_JAKARTA ELSE USE_JAVAX,
                          testDependencies |-> IF isJava17Plus THEN JUNIT_17 ELSE JUNIT_11,
                          moduleOpens |-> IF isJava17Plus THEN OPENS_17 ELSE OPENS_11]]
            IN  IF springBootVersion.kind # "string" THEN ManifestParseFailure
                ELSE Flags(StartsWith(springBootVersion.text, THREE),
                           ParseIntAtLeast17(javaVersion))
    IN  Returns(Or3(pom.parentVersion, pom.bootVersion, TagValue(UNKNOWN)),
               Or3(pom.javaVersion, pom.compilerSource, TagValue(UNKNOWN)))

\* the return of checkSpringBootVersion: readFile rejects on a file that
\* is missing or cannot be read, parser.parse throws on the comment that
\* is not closed; both land in the catch block
CheckSpringBootVersion(pom) ==
    IF pom.form \in {"missing", "unreadable", "open-comment"}
    THEN ManifestParseFailure
    ELSE VersionInfo(pom)

\* number of times the extractor is run
MaxRuns == 2

\* the extractors that take a focal name
FocalTools ==
    {"investigateEntityRelationships", "analyzeController",
     "analyzeRepository", "investigateService"}

\* the extractors that return found: false when glob finds no file
NotFoundTools == FocalTools \cup {"investigateJwtClaims"}

\* the focal names the extractors are called with
FocalNames ==
    {N_ORDER, N_ITEM, N_ORDER_CONTROLLER, N_ORDER_REPOSITORY, N_ORDER_SERVICE, N_GHOST}

\* the packages checkJsonNamingStrategy is called with
Packages == {PKG_DTO, PKG_NONE}

\* the promise of the extractor rejects with the error of readFile
Rejection == [thrown |-> "Error"]

\* a locator that reads the module variable containerRuntime: once a
\* runtime is detected it looks for the files inside the container, where
\* there are none
LocateInContainer(o, a, project) ==
    IF containerRuntime # "null" THEN <<>>
    ELSE CASE o \in FocalTools -> FindJavaFiles(project, a)
           [] o = "investigateJwtClaims" -> JwtFiles(project)
           [] o = "investigateResponseWrapper" -> WrapperFiles(project)
           [] o = "checkJsonNamingStrategy" -> FindFilesUnder(project, a)
           [] o \in {"findMissingProperties", "findBeansNeedingExclusion"} ->
                 AllJavaFiles(project)

\* what the glob calls of the extractor o return
Locate(o, a, project) ==
    CASE o \in FocalTools -> FindJavaFiles(project, a)
      [] o = "investigateJwtClaims" -> JwtFiles(project)
      [] o = "investigateResponseWrapper" -> WrapperFiles(project)
      [] o = "checkJsonNamingStrategy" -> FindFilesUnder(project, a)
      [] o \in {"findMissingProperties", "findBeansNeedingExclusion"} ->
            AllJavaFiles(project)

\* how many of the located files the extractor o reads: the first one when
\* it takes a focal name (none when there is none), all of them otherwise
ToRead(o, located) ==
    IF o \in FocalTools THEN (IF located = <<>> THEN 0 ELSE 1) ELSE Len(located)

\* the return of the extractor o when glob has found nothing for it
NotFound(o, a) ==
    CASE o = "investigateEntityRelationships" -> EntityNotFound(a)
      [] o = "analyzeController" -> ControllerNotFound(a)
      [] o = "analyzeRepository" -> RepositoryNotFound(a)
      [] o = "investigateService" -> ServiceNotFound(a)
      [] o = "investigateJwtClaims" -> JwtNotFound

\* the return of the extractor o after its reads
Extract(o, a, located, texts, project) ==
    CASE o = "investigateEntityRelationships" -> InvestigateEntityRelationships(a, texts[1])
      [] o = "analyzeController" -> AnalyzeController(a, texts[1])
      [] o = "analyzeRepository" -> AnalyzeRepository(a, texts[1])
      [] o = "investigateService" -> InvestigateService(a, texts[1])
      [] o = "investigateJwtClaims" -> InvestigateJwtClaims(located, texts)
      [] o = "investigateResponseWrapper" -> InvestigateResponseWrapper(located, texts)
      [] o = "checkJsonNamingStrategy" -> CheckJsonNamingStrategy(a, located, texts)
      [] o = "findMissingProperties" -> FindMissingProperties(texts, project.testProps)
      [] o = "findBeansNeedingExclusion" -> FindBeansNeedingExclusion(located, texts)

\* the server starts on one of the projects
ExtractorInit ==
    /\ BuildIdle
    /\ corpus \in CorpusNames
    /\ ExtractorIdle

\* the extractor o is entered with the argument a and calls glob
Call(o, a) ==
    /\ pc = "idle"
    /\ pc' = "globbing"
    /\ op' = o
    /\ arg' = a
    /\ runs' = runs + 1
    /\ UNCHANGED <<result, corpus, files, contents, reads, previous,
                   containerRuntime, probe>>
    /\ UNCHANGED <<timeout, execCalls, killed, chunks, stdout, stderr, settle>>
    /\ UNCHANGED svars

CallInvestigateEntityRelationships ==
    \E a \in FocalNames : Call("investigateEntityRelationships", a)

CallAnalyzeController == \E a \in FocalNames : Call("analyzeController", a)

CallAnalyzeRepository == \E a \in FocalNames : Call("analyzeRepository", a)

CallInvestigateService == \E a \in FocalNames : Call("investigateService", a)

CallInvestigateJwtClaims == Call("investigateJwtClaims", <<>>)

CallInvestigateResponseWrapper == Call("investigateResponseWrapper", <<>>)

CallCheckJsonNamingStrategy == \E a \in Packages : Call("checkJsonNamingStrategy", a)

CallFindMissingProperties == Call("findMissingProperties", <<>>)

CallFindBeansNeedingExclusion == Call("findBeansNeedingExclusion", <<>>)

\* glob resolves
GlobResolves ==
    /\ pc = "globbing"
    /\ op # "checkSpringBootVersion"
    /\ pc' = "scanning"
    /\ files' = Locate(op, arg, CorpusOf(corpus))
    /\ UNCHANGED <<op, result, corpus, arg, contents, reads, runs, previous,
                   containerRuntime, probe>>
    /\ UNCHANGED <<timeout, execCalls, killed, chunks, stdout, stderr, settle>>
    /\ UNCHANGED svars

\* an extractor that opens the first path of the list before it looks at
\* the length of the list: readFile(undefined) rejects
ReturnNotFoundAfterRead ==
    /\ pc = "scanning"
    /\ op \in NotFoundTools
    /\ files = <<>>
    /\ pc' = "done"
    /\ reads' = reads + 1
    /\ result' = Rejection
    /\ UNCHANGED <<op, corpus, arg, files, contents, runs, previous,
                   containerRuntime, probe>>
    /\ UNCHANGED <<timeout, execCalls, killed, chunks, stdout, stderr, settle>>
    /\ UNCHANGED svars

\* the extractor finds its list of files empty and returns
ReturnNotFound ==
    /\ pc = "scanning"
    /\ op \in NotFoundTools
    /\ files = <<>>
    /\ pc' = "done"
    /\ result' = NotFound(op, arg)
    /\ UNCHANGED <<op, corpus, arg, files, contents, reads, runs, previous,
                   containerRuntime, probe>>
    /\ UNCHANGED <<timeout, execCalls, killed, chunks, stdout, stderr, settle>>
    /\ UNCHANGED svars

\* readJavaFile resolves with the text of the next file
ReadJavaFile ==
    /\ pc = "scanning"
    /\ Len(contents) < ToRead(op, files)
    /\ files[Len(contents) + 1].readable
    /\ contents' = Append(contents, files[Len(contents) + 1].text)
    /\ reads' = reads + 1
    /\ UNCHANGED <<pc, op, result, corpus, arg, files, runs, previous,
                   containerRuntime, probe>>
    /\ UNCHANGED <<timeout, execCalls, killed, chunks, stdout, stderr, settle>>
    /\ UNCHANGED svars

\* readJavaFile rejects: nothing in the extractor catches the error
ReadJavaFileRejects ==
    /\ pc = "scanning"
    /\ Len(contents) < ToRead(op, files)
    /\ ~files[Len(contents) + 1].readable
    /\ pc' = "done"
    /\ reads' = reads + 1
    /\ result' = Rejection
    /\ UNCHANGED <<op, corpus, arg, files, contents, runs, previous,
                   containerRuntime, probe>>
    /\ UNCHANGED <<timeout, execCalls, killed, chunks, stdout, stderr, settle>>
    /\ UNCHANGED svars

\* the extractor has read what it reads and runs to its return
\* (findMissingProperties opens the test properties on the way)
ReturnResult ==
    /\ pc = "scanning"
    /\ ~(op \in NotFoundTools /\ files = <<>>)
    /\ Len(contents) = ToRead(op, files)
    /\ pc' = "done"
    /\ reads' = IF op = "findMissingProperties" THEN reads + 1 ELSE reads
    /\ result' = Extract(op, arg, files, contents, CorpusOf(corpus))
    /\ UNCHANGED <<op, corpus, arg, files, contents, runs, previous,
                   containerRuntime, probe>>
    /\ UNCHANGED <<timeout, execCalls, killed, chunks, stdout, stderr, settle>>
    /\ UNCHANGED svars

\* the same extractor is called again with the same argument
CallAgain ==
    /\ pc = "done"
    /\ runs < MaxRuns
    /\ pc' = "globbing"
    /\ previous' = result
    /\ result' = NoResult
    /\ files' = <<>>
    /\ contents' = <<>>
    /\ reads' = 0
    /\ runs' = runs + 1
    /\ UNCHANGED <<op, corpus, arg, containerRuntime, probe>>
    /\ UNCHANGED <<timeout, execCalls, killed, chunks, stdout, stderr, settle>>
    /\ UNCHANGED svars

\* check_environment calls detectContainerRuntime, which finds the module
\* variable empty and calls execAsync("docker --version")
DetectContainerRuntime ==
    /\ probe = "idle"
    /\ containerRuntime = "null"
    /\ probe' = "docker"
    /\ UNCHANGED svars
    /\ UNCHANGED <<vars, corpus, arg, files, contents, reads, runs, previous,
                   containerRuntime>>

\* docker --version exits with status 0
DockerFound ==
    /\ probe = "docker"
    /\ containerRuntime' = "docker"
    /\ probe' = "idle"
    /\ UNCHANGED svars
    /\ UNCHANGED <<vars, corpus, arg, files, contents, reads, runs, previous>>

\* docker --version fails: execAsync("podman --version")
DockerMissing ==
    /\ probe = "docker"
    /\ probe' = "podman"
    /\ UNCHANGED svars
    /\ UNCHANGED <<vars, corpus, arg, files, contents, reads, runs, previous,
                   containerRuntime>>

\* podman --version exits with status 0
PodmanFound ==
    /\ probe = "podman"
    /\ containerRuntime' = "podman"
    /\ probe' = "idle"
    /\ UNCHANGED svars
    /\ UNCHANGED <<vars, corpus, arg, files, contents, reads, runs, previous>>

\* podman --version fails: "none" is returned and nothing is stored
PodmanMissing ==
    /\ probe = "podman"
    /\ probe' = "idle"
    /\ UNCHANGED svars
    /\ UNCHANGED <<vars, corpus, arg, files, contents, reads, runs, previous,
                   containerRuntime>>

\* check_spring_boot_version is called on a project with the pom.xml a
CallCheckSpringBootVersion ==
    \E a \in Manifests : Call("checkSpringBootVersion", a)

\* readFile(pomPath) settles and checkSpringBootVersion runs to its return
ReadPom ==
    /\ pc = "globbing"
    /\ op = "checkSpringBootVersion"
    /\ pc' = "done"
    /\ reads' = reads + 1
    /\ result' = CheckSpringBootVersion(arg)
    /\ UNCHANGED <<op, corpus, arg, files, contents, runs, previous,
                   containerRuntime, probe>>
    /\ UNCHANGED <<timeout, execCalls, killed, chunks, stdout, stderr, settle>>
    /\ UNCHANGED svars

ExtractorNext ==
    \/ CallInvestigateEntityRelationships
    \/ CallAnalyzeController
    \/ CallAnalyzeRepository
    \/ CallInvestigateService
    \/ CallInvestigateJwtClaims
    \/ CallInvestigateResponseWrapper
    \/ CallCheckJsonNamingStrategy
    \/ CallFindMissingProperties
    \/ CallFindBeansNeedingExclusion
    \/ CallCheckSpringBootVersion
    \/ ReadPom
    \/ GlobResolves
    \/ ReturnNotFound
    \/ ReadJavaFile
    \/ ReadJavaFileRejects
    \/ ReturnResult
    \/ CallAgain
    \/ DetectContainerRuntime
    \/ DockerFound
    \/ DockerMissing
    \/ PodmanFound
    \/ PodmanMissing

ExtractorSpec == ExtractorInit /\ [][ExtractorNext]_<<vars, evars>>

(***************************************************************************)
(* The extractors: properties                                              *)
(***************************************************************************)
\* the run of the extractor has come to its end with glob having found no
\* file for it
LocatedNothing == pc = "done" /\ op \in NotFoundTools /\ files = <<>>

\* C11: when glob finds no file for an extractor that takes a focal name, or
\* for investigateJwtClaims, the extractor returns {found: false, message},
\* its promise does not reject and it has opened no file.
C11_NotFoundIsData ==
    LocatedNothing =>
        /\ result # Rejection
        /\ DOMAIN result = {"found", "message"}
        /\ result.found = FALSE
        /\ reads = 0
        /\ contents = <<>>

\* C11, witness: analyzeController called with a name no file carries, and
\* investigateJwtClaims on a project without JWT classes, have returned.
C11_Witness ==
    /\ LocatedNothing
    /\ Has(result, "found") /\ ~result.found
    /\ \/ op = "analyzeController" /\ arg = N_GHOST /\ corpus = "shop"
       \/ op = "investigateJwtClaims" /\ corpus = "empty"

\* the extractor has returned a result to the handler
Returned == pc = "done" /\ result # Rejection /\ result # NoResult

\* the field of a result that says whether what was looked for was found
HasDiscriminator(r) == Has(r, "found") \/ Has(r, "hasWrapper")

\* the result says that what was looked for was not found
SaysNotFound(r) ==
    \/ Has(r, "found") /\ r.found = FALSE
    \/ Has(r, "hasWrapper") /\ r.hasWrapper = FALSE

\* the fields of a result that describe what was found
DependentFields(r) == DOMAIN r \ {"found", "hasWrapper", "message", "recommendation"}

\* C12: every result an extractor returns carries a discriminator that says
\* whether the target was found, and a result that says it was not found
\* has every dependent field absent or null.
C12_FoundDiscriminator ==
    Returned =>
        /\ HasDiscriminator(result)
        /\ SaysNotFound(result) => \A f \in DependentFields(result) : result[f] = NULL

\* C13: a failure inside an extractor or a build function (a located file
\* that cannot be read, a failed subprocess) is turned into a returned
\* result inside the operation: no operation ends with a rejected promise
\* or a thrown error.
C13_NothingEscapes ==
    pc = "done" => (result # Rejection /\ result # Thrown)

\* findMissingProperties has returned
ReturnedMissingProperties == Returned /\ op = "findMissingProperties"

\* the property keys of the @Value annotations of the files read
Discovered == {ValueNamesOfAll(contents)[k] : k \in 1..Len(ValueNamesOfAll(contents))}

\* the elements of a list
Elements(list) == {list[k] : k \in 1..Len(list)}

\* C14: when application-test.properties does not exist, the result of
\* findMissingProperties has testPropertiesFileExists false, its
\* missingProperties are exactly the discovered keys, each once, and
\* totalProperties is the number of distinct discovered keys.
C14_NoTestPropertiesAllMissing ==
    (ReturnedMissingProperties /\ ~CorpusOf(corpus).testProps.exists) =>
        /\ result.testPropertiesFileExists = FALSE
        /\ Elements(result.missingProperties) = Discovered
        /\ Len(result.missingProperties) = Cardinality(Discovered)
        /\ result.totalProperties = Cardinality(Discovered)

\* C14, witness: the shop without test properties, whose classes carry
\* @Value annotations, one key of them twice.
C14_Witness ==
    /\ ReturnedMissingProperties
    /\ ~CorpusOf(corpus).testProps.exists
    /\ result.totalProperties > 1
    /\ Len(ValueNamesOfAll(contents)) > Cardinality(Discovered)

\* no file read carries a @Value annotation
NoValueAnnotation == \A k \in 1..Len(contents) : ~Includes(contents[k], AT_VALUE_OPEN)

\* C15: when no file under src/main/java carries a @Value annotation, the
\* result of findMissingProperties has totalProperties 0 and an empty
\* missingProperties list, with and without application-test.properties.
C15_NoAnnotationNoProperty ==
    (ReturnedMissingProperties /\ NoValueAnnotation) =>
        /\ result.totalProperties = 0
        /\ result.missingProperties = <<>>

\* C15, witness: a project of several classes without @Value that has an
\* application-test.properties.
C15_Witness ==
    /\ ReturnedMissingProperties /\ NoValueAnnotation
    /\ Len(contents) > 1
    /\ CorpusOf(corpus).testProps.exists

\* a line of the properties text defines the key: the line starts with the
\* key, and "=", ":" or a blank follows it
Defines(text, key) ==
    \E i \in 1..Len(text) :
        /\ i = 1 \/ text[i - 1] = "\n"
        /\ MatchAt(text, i, key)
        /\ CharAt(text, i + Len(key)) \in {"=", ":", " "}

\* C16: with application-test.properties in place, a discovered key is in
\* missingProperties exactly when no line of the file defines it; a key
\* that is only part of a longer key, or of a value, is reported missing.
C16_MissingIffUndefined ==
    (ReturnedMissingProperties /\ CorpusOf(corpus).testProps.exists) =>
        \A key \in Discovered :
            key \in Elements(result.missingProperties)
                <=> ~Defines(CorpusOf(corpus).testProps.text, key)

ReturnedEntity ==
    Returned /\ op = "investigateEntityRelationships" /\ result.found = TRUE

\* the texts the matches of manyToOnePattern cover, in the order of the
\* matches: each runs from @ManyToOne to the ";" of the field
ManyToOneDeclarations(content) ==
    LET Cut(starts) ==
            [k \in 1..Len(starts) |->
                Slice(content, starts[k], ManyToOnePatternAt(content, starts[k]).end)]
    IN  Cut(Scan([i \in 1..Len(content) |-> ManyToOnePatternAt(content, i).end], 1))

\* C18: a to-one relationship declared with nullable = false is reported
\* required: true, and so is a to-one relationship declared without any
\* nullable marker.
C18_RequiredToOne ==
    ReturnedEntity =>
        LET decls == ManyToOneDeclarations(contents[1])
            toOne == result.relationships.manyToOne
        IN  /\ Len(toOne) = Len(decls)
            /\ \A k \in 1..Len(decls) :
                  (Includes(decls[k], NULLABLE_FALSE) \/ ~Includes(decls[k], NULLABLE))
                      => toOne[k].required = TRUE

\* C18, witness: Order, with customer declared nullable = false and store
\* declared without join column, both reported required.
C18_Witness ==
    /\ ReturnedEntity
    /\ LET decls == ManyToOneDeclarations(contents[1])
       IN  /\ \E k \in 1..Len(decls) :
                 Includes(decls[k], NULLABLE_FALSE) /\ result.relationships.manyToOne[k].required
           /\ \E k \in 1..Len(decls) :
                 ~Includes(decls[k], NULLABLE) /\ result.relationships.manyToOne[k].required

\* C19: the creationOrder of a found entity holds one entry for every
\* to-one relationship, in the order of the declarations, then the one
\* entry of the entity, then one entry for every to-many relationship.
C19_DependenciesEntityChildren ==
    ReturnedEntity =>
        LET order  == result.creationOrder
            toOne  == result.relationships.manyToOne
            toMany == result.relationships.oneToMany
            own    == {p \in 1..Len(order) : order[p] = CREATE_2 \o result.entity}
        IN  /\ Len(order) = Len(toOne) + 1 + Len(toMany)
            /\ own = {Len(toOne) + 1}
            /\ \A k \in 1..Len(toOne) :
                  StartsWith(order[k], CREATE_1 \o toOne[k].type)
            /\ \A k \in 1..Len(toMany) :
                  StartsWith(order[Len(toOne) + 1 + k], CREATE_3 \o toMany[k].type)

\* C19, witness: an entity with two to-one relationships and a to-many one.
C19_Witness ==
    /\ ReturnedEntity
    /\ Len(result.relationships.manyToOne) > 1
    /\ Len(result.relationships.oneToMany) > 0
    /\ Len(result.creationOrder) = 4

\* investigateJwtClaims has returned what it found
ReturnedJwtClaims ==
    Returned /\ op = "investigateJwtClaims" /\ result.found = TRUE

\* the claim literals of the .get( and .getClaim( calls of the files glob
\* found, token utilities before request filters, each file from its
\* first character to its last
RECURSIVE ClaimLiterals(_)
ClaimLiterals(located) ==
    IF located = <<>> THEN <<>>
    ELSE GetClaimMatches(Head(located).text) \o ClaimLiterals(Tail(located))

\* the place a claim literal is first seen at
FirstSeen(literals, claim) == Min({k \in 1..Len(literals) : literals[k] = claim})

\* C20: investigateJwtClaims scans every file of both families, the
\* token utilities and the request filters; customClaims holds every claim
\* literal of any of these files once, in the order in which the literals
\* are first seen.
C20_ClaimsMergedOnce ==
    ReturnedJwtClaims =>
        LET literals == ClaimLiterals(JwtFiles(CorpusOf(corpus)))
            custom   == result.customClaims
        IN  /\ Elements(custom) = Elements(literals)
            /\ Len(custom) = Cardinality(Elements(literals))
            /\ \A i, j \in 1..Len(custom) :
                  i < j => FirstSeen(literals, custom[i]) < FirstSeen(literals, custom[j])

\* C20, witness: a token utility and a request filter that share claim
\* literals, the filter reading one the utility does not read.
C20_Witness ==
    /\ ReturnedJwtClaims
    /\ Len(files) > 1
    /\ LET literals == ClaimLiterals(JwtFiles(CorpusOf(corpus)))
       IN  /\ Len(literals) > Len(result.customClaims)
           /\ \E k \in 1..Len(result.customClaims) :
                 result.customClaims[k] \notin Elements(GetClaimMatches(files[1].text))

\* checkSpringBootVersion has come to its end on the pom.xml arg
EndedVersionCheck == pc = "done" /\ op = "checkSpringBootVersion"

\* the typed error result {error, message}
IsManifestParseFailure(r) == DOMAIN r = {"error", "message"}

\* C21: checkSpringBootVersion never throws; on a pom.xml that is
\* missing, unreadable or not well-formed it returns {error, message}, and
\* on a pom.xml that is readable and well-formed it never does.
C21_ManifestErrorIffUnusable ==
    EndedVersionCheck =>
        /\ result # Rejection
        /\ arg.form # "well-formed" => IsManifestParseFailure(result)
        /\ arg.form = "well-formed" => ~IsManifestParseFailure(result)

\* the major version number of a version text: the number it starts with
Major(text) == ParseInt(SubSeq(text, 1, DigitRunEnd(text, 1) - 1))

\* checkSpringBootVersion has returned the version of a manifest that
\* names one
ReturnedVersion ==
    /\ EndedVersionCheck
    /\ Has(result, "isSpringBoot3")
    /\ result.springBootVersion.text # UNKNOWN

\* C22: isSpringBoot3 is true exactly when the major number of the
\* framework version is 3 or more, and the persistence namespace of the
\* result is the jakarta one exactly when isSpringBoot3 is true.
C22_Boot3IffMajorAtLeast3 ==
    ReturnedVersion =>
        /\ result.isSpringBoot3 <=> Major(result.springBootVersion.text) >= 3
        /\ result.isSpringBoot3 <=> result.persistenceApi = JAKARTA_PERSISTENCE
        /\ result.isSpringBoot3 <=> result.recommendations.imports = USE_JAKARTA

(***************************************************************************)
(* The CallToolRequestSchema handler                                       *)
(***************************************************************************)
\* process.env.MCP_WORKSPACE || "/workspace", with MCP_WORKSPACE not set
DEFAULT_WORKSPACE ==
    <<"/", "w", "o", "r", "k", "s", "p", "a", "c", "e">>

MaxPathLen == 3

\* args.projectPath is not given
UNDEFINED == <<"undefined">>

\* the characters project paths are written with
PathChars == {"C", ":", "\\", "/", " "}

\* the texts of length n over PathChars
RECURSIVE PathsOfLen(_)
PathsOfLen(n) ==
    IF n = 0 THEN {<<>>}
    ELSE {Append(p, c) : p \in PathsOfLen(n - 1), c \in PathChars}

\* what a request carries as args.projectPath
Paths == {UNDEFINED} \cup UNION {PathsOfLen(n) : n \in 0..MaxPathLen}

\* /^[A-Za-z]:\\/.test(input)
IsDrivePath(input) ==
    /\ Len(input) >= 3
    /\ IsUpper(input[1]) \/ IsLower(input[1])
    /\ input[2] = ":"
    /\ input[3] = "\\"

resolveProjectPath(input) ==
    IF input = UNDEFINED \/ input = <<>> \/ Trim(input) = <<>> THEN DEFAULT_WORKSPACE
    ELSE IF IsDrivePath(input) THEN DEFAULT_WORKSPACE
    ELSE input

\* the names of TOOLS
ToolNames ==
    {"check_environment", "investigate_jwt_claims", "investigate_response_wrapper",
     "investigate_entity_relationships", "find_missing_properties",
     "validate_maven_compile", "run_test_checkpoint", "analyze_controller",
     "check_json_naming_strategy", "find_beans_needing_exclusion",
     "analyze_repository", "check_spring_boot_version", "investigate_service"}

\* the names requests come with
RequestNames == ToolNames \cup {"no_such_tool"}

\* the operations whose promise may reject: the extractors that read the
\* files glob found (readJavaFile rejects) and runTestCheckpoint (its catch
\* block throws); checkEnvironment, validateMavenCompile and
\* checkSpringBootVersion return from their catch blocks
MayReject ==
    ToolNames \ {"check_environment", "validate_maven_compile",
                 "check_spring_boot_version"}

\* the response of the catch block without its isError flag
ErrorResponseUnflagged(message) ==
    [content |-> [type |-> "text", text |-> [error |-> message]]]

\* the response of the catch block
ErrorResponse(message) ==
    [content |-> [type |-> "text", text |-> [error |-> message]],
     isError |-> TRUE]

\* the response of a case of the switch
TextResponse(text) == [content |-> [type |-> "text", text |-> text]]

\* the handler runs from the request to its first await: !args and the
\* default case throw into the catch block, which answers; a case of the
\* switch resolves the project path and calls its operation
Handle(name, hasArgs, path) ==
    IF ~hasArgs
    THEN [name |-> name, hasArgs |-> hasArgs, path |-> path, pc |-> "answered",
          projectPath |-> UNDEFINED, responses |-> 1, rejected |-> FALSE,
          response |-> ErrorResponse(<<"Missing required arguments">>)]
    ELSE IF name \notin ToolNames
    THEN [name |-> name, hasArgs |-> hasArgs, path |-> path, pc |-> "answered",
          projectPath |-> UNDEFINED, responses |-> 1, rejected |-> FALSE,
          response |-> ErrorResponse(<<"Unknown tool: ", name>>)]
    ELSE [name |-> name, hasArgs |-> hasArgs, path |-> path, pc |-> "awaiting",
          projectPath |-> resolveProjectPath(path), responses |-> 0,
          rejected |-> FALSE,
          response |-> NoResult]

HandlerInit ==
    /\ BuildIdle
    /\ corpus = "empty"
    /\ ExtractorIdle

\* a tools/call request arrives
CallTool ==
    /\ calls = <<>>
    /\ \E name \in RequestNames, hasArgs \in BOOLEAN, path \in Paths :
          /\ hasArgs \/ path = UNDEFINED
          /\ calls' = <<Handle(name, hasArgs, path)>>
    /\ UNCHANGED <<vars, corpus, arg, files, contents, reads, runs, previous,
                   containerRuntime, probe, spawned, env>>

\* the operation returns its text, which the case wraps into the response
OperationReturns ==
    /\ calls # <<>> /\ calls[1].pc = "awaiting"
    /\ calls' = <<[calls[1] EXCEPT
                     !.pc = "answered",
                     !.responses = @ + 1,
                     !.response = TextResponse([of |-> calls[1].name,
                                                on |-> calls[1].projectPath])]>>
    /\ UNCHANGED <<vars, corpus, arg, files, contents, reads, runs, previous,
                   containerRuntime, probe, spawned, env>>

\* the promise of the operation rejects: the await throws into the catch
\* block
OperationRejects ==
    /\ calls # <<>> /\ calls[1].pc = "awaiting"
    /\ calls[1].name \in MayReject
    /\ calls' = <<[calls[1] EXCEPT
                     !.pc = "answered",
                     !.responses = @ + 1,
                     !.rejected = TRUE,
                     !.response = ErrorResponse(<<"rejected: ", calls[1].name>>)]>>
    /\ UNCHANGED <<vars, corpus, arg, files, contents, reads, runs, previous,
                   containerRuntime, probe, spawned, env>>

HandlerNext ==
    \/ CallTool
    \/ OperationReturns
    \/ OperationRejects

HandlerSpec == HandlerInit /\ [][HandlerNext]_<<vars, evars>>


(***************************************************************************)
(* The handler: properties                                                 *)
(***************************************************************************)
\* the call the handler has answered with the text of its operation
Served ==
    /\ calls # <<>>
    /\ calls[1].pc = "answered"
    /\ ~calls[1].rejected
    /\ calls[1].hasArgs
    /\ calls[1].name \in ToolNames

\* C23: a projectPath in Windows drive-letter form with backslashes is
\* honoured: the operation runs against that directory, as it does for a
\* path written with forward slashes
C23_DrivePathHonoured ==
    Served /\ calls[1].path # UNDEFINED /\ Trim(calls[1].path) # <<>>
        => calls[1].response.content.text.on = calls[1].path


\* the response carries isError: true
IsError(response) == "isError" \in DOMAIN response /\ response.isError

\* a fault was raised while the call was served: no arguments object, an
\* unknown tool name, or an exception escaping the operation
Fault(call) ==
    \/ ~call.hasArgs
    \/ call.name \notin ToolNames
    \/ call.rejected

\* C29: the handler answers a request with exactly one response; the response
\* has isError: true and carries the error message exactly when a fault was
\* raised while serving the call, and check_environment called without an
\* arguments object is answered with such an error
C29_OneResponseErrorIffFault ==
    calls # <<>> =>
        /\ calls[1].responses = (IF calls[1].pc = "answered" THEN 1 ELSE 0)
        /\ calls[1].pc = "answered" =>
              /\ IsError(calls[1].response) <=> Fault(calls[1])
              /\ Fault(calls[1]) =>
                    "error" \in DOMAIN calls[1].response.content.text
        /\ calls[1].name = "check_environment" /\ ~calls[1].hasArgs =>
              /\ calls[1].pc = "answered"
              /\ calls[1].response =
                    [content |-> [type |-> "text",
                                  text |-> [error |-> <<"Missing required arguments">>]],
                     isError |-> TRUE]

C29_Witness ==
    /\ calls # <<>>
    /\ calls[1].name = "check_environment"
    /\ ~calls[1].hasArgs
    /\ calls[1].pc = "answered"
    /\ IsError(calls[1].response)


(***************************************************************************)
(* detectContainerRuntime, called by checkEnvironment calls that run side  *)
(* by side.  The awaits of checkEnvironment before the runtime check       *)
(* (node, mvn and java --version) touch nothing the calls share.           *)
(***************************************************************************)
MaxCallers == 3

Callers == 1..MaxCallers

\* execAsync(command + " --version") resolves when the command is installed
\* and rejects when it is not
Resolves(command) == env[command]

\* detectContainerRuntime with podman tried first
DetectPodmanFirst(call) ==
    IF containerRuntime # "null"
    THEN [call EXCEPT !.pc = "version", !.runtime = containerRuntime]
    ELSE [call EXCEPT !.pc = "podman", !.probed = Append(@, "podman")]

\* what detectContainerRuntime returns without probing, and what it does
\* when the module variable is empty: execAsync("docker --version")
DetectContainerRuntimeOf(call) ==
    IF containerRuntime # "null"
    THEN [call EXCEPT !.pc = "version", !.runtime = containerRuntime]
    ELSE [call EXCEPT !.pc = "docker", !.probed = Append(@, "docker")]

ProbeInit ==
    /\ BuildIdle
    /\ corpus = "empty"
    /\ arg = <<>>
    /\ files = <<>>
    /\ contents = <<>>
    /\ reads = 0
    /\ runs = 0
    /\ previous = [none |-> TRUE]
    /\ containerRuntime = "null"
    /\ probe = "idle"
    /\ calls = [i \in Callers |-> [pc |-> "idle", runtime |-> "null", probed |-> <<>>]]
    /\ spawned = [docker |-> 0, podman |-> 0, version |-> 0]
    /\ env \in [docker : BOOLEAN, podman : BOOLEAN]

\* checkEnvironment reaches  const runtime = await detectContainerRuntime():
\* the module variable holds a runtime, which is returned, and
\* execAsync(runtime + " --version") is called for the version
DetectCached(i) ==
    /\ calls[i].pc = "idle"
    /\ containerRuntime # "null"
    /\ calls' = [calls EXCEPT ![i] = DetectContainerRuntimeOf(calls[i])]
    /\ spawned' = [spawned EXCEPT !.version = @ + 1]
    /\ UNCHANGED <<vars, corpus, arg, files, contents, reads, runs, previous,
                   containerRuntime, probe, env>>

\* the module variable is empty: execAsync("docker --version") is called
DetectProbes(i) ==
    /\ calls[i].pc = "idle"
    /\ containerRuntime = "null"
    /\ calls' = [calls EXCEPT ![i] = DetectContainerRuntimeOf(calls[i])]
    /\ spawned' = [spawned EXCEPT !.docker = @ + 1]
    /\ UNCHANGED <<vars, corpus, arg, files, contents, reads, runs, previous,
                   containerRuntime, probe, env>>

\* docker --version resolves: the module variable is set and returned, and
\* checkEnvironment calls execAsync("docker --version") for the version
DockerResolves(i) ==
    /\ calls[i].pc = "docker"
    /\ Resolves("docker")
    /\ containerRuntime' = "docker"
    /\ calls' = [calls EXCEPT ![i].pc = "version", ![i].runtime = "docker"]
    /\ spawned' = [spawned EXCEPT !.version = @ + 1]
    /\ UNCHANGED <<vars, corpus, arg, files, contents, reads, runs, previous,
                   probe, env>>

\* docker --version rejects: the catch block swallows the error and
\* execAsync("podman --version") is called
DockerRejects(i) ==
    /\ calls[i].pc = "docker"
    /\ ~Resolves("docker")
    /\ calls' = [calls EXCEPT ![i].pc = "podman",
                              ![i].probed = Append(@, "podman")]
    /\ spawned' = [spawned EXCEPT !.podman = @ + 1]
    /\ UNCHANGED <<vars, corpus, arg, files, contents, reads, runs, previous,
                   containerRuntime, probe, env>>

\* podman --version resolves: the module variable is set and returned, and
\* checkEnvironment calls execAsync("podman --version") for the version
PodmanResolves(i) ==
    /\ calls[i].pc = "podman"
    /\ Resolves("podman")
    /\ containerRuntime' = "podman"
    /\ calls' = [calls EXCEPT ![i].pc = "version", ![i].runtime = "podman"]
    /\ spawned' = [spawned EXCEPT !.version = @ + 1]
    /\ UNCHANGED <<vars, corpus, arg, files, contents, reads, runs, previous,
                   probe, env>>

\* podman --version rejects: the catch block swallows the error, "none" is
\* returned and nothing is stored; checkEnvironment recommends installing
\* a runtime and goes on to its return
PodmanRejects(i) ==
    /\ calls[i].pc = "podman"
    /\ ~Resolves("podman")
    /\ calls' = [calls EXCEPT ![i].pc = "done", ![i].runtime = "none"]
    /\ UNCHANGED <<vars, corpus, arg, files, contents, reads, runs, previous,
                   containerRuntime, probe, spawned, env>>

\* the version subprocess settles; checkEnvironment goes on to its return
VersionSettles(i) ==
    /\ calls[i].pc = "version"
    /\ calls' = [calls EXCEPT ![i].pc = "done"]
    /\ UNCHANGED <<vars, corpus, arg, files, contents, reads, runs, previous,
                   containerRuntime, probe, spawned, env>>

ProbeNext ==
    \E i \in Callers :
        \/ DetectCached(i)
        \/ DetectProbes(i)
        \/ DockerResolves(i)
        \/ DockerRejects(i)
        \/ PodmanResolves(i)
        \/ PodmanRejects(i)
        \/ VersionSettles(i)

ProbeSpec == ProbeInit /\ [][ProbeNext]_<<vars, evars>>


(***************************************************************************)
(* detectContainerRuntime: properties                                      *)
(***************************************************************************)
\* what the machine offers, docker before podman
Available ==
    IF env.docker THEN "docker" ELSE IF env.podman THEN "podman" ELSE "none"

\* the calls detectContainerRuntime has returned to
Detected == {i \in Callers : calls[i].pc \in {"version", "done"}}

\* C24: detection probes docker first and returns "docker" when it is
\* available, probes podman only when docker is unavailable and returns
\* "podman" when that succeeds, and returns "none" only when both probes
\* fail; every call of it returns a runtime name to its caller
C24_DockerFirstPodmanFallback ==
    \A i \in Callers :
        /\ calls[i].probed \in {<<>>, <<"docker">>, <<"docker", "podman">>}
        /\ calls[i].probed = <<"docker", "podman">> => ~env.docker
        /\ i \in Detected =>
              /\ calls[i].runtime = Available
              /\ calls[i].runtime = "none" =>
                    calls[i].probed = <<"docker", "podman">>
        /\ calls[i].pc \in {"idle", "docker", "podman", "version", "done"}

C24_Witness ==
    \E i, j \in Callers :
        /\ calls[i].pc = "done" /\ calls[i].runtime = "podman"
        /\ calls[i].probed = <<"docker", "podman">>
        /\ calls[j].pc = "done" /\ calls[j].probed = <<>>

\* C25: at most one docker --version and at most one podman --version
\* subprocess is started by the probes of the calls, however they interleave
C25_SingleFlight ==
    /\ spawned.docker <= 1
    /\ spawned.podman <= 1


(***************************************************************************)
(* Tool calls dispatched side by side: the handler is async, so a second   *)
(* request is served while the first waits for glob, readFile or its       *)
(* subprocess.  Each call keeps what it has gathered in the locals of its  *)
(* own invocation.                                                         *)
(***************************************************************************)
MaxSlots == 2

MaxWrites == 1

Slots == 1..MaxSlots

\* the requests that are dispatched
Requests ==
    {[op |-> "investigateEntityRelationships", arg |-> N_ORDER],
     [op |-> "analyzeController", arg |-> N_ORDER_CONTROLLER],
     [op |-> "analyzeRepository", arg |-> N_GHOST],
     [op |-> "investigateService", arg |-> N_ORDER_SERVICE],
     [op |-> "investigateJwtClaims", arg |-> <<>>],
     [op |-> "investigateResponseWrapper", arg |-> <<>>],
     [op |-> "checkJsonNamingStrategy", arg |-> PKG_DTO],
     [op |-> "findMissingProperties", arg |-> <<>>],
     [op |-> "findBeansNeedingExclusion", arg |-> <<>>],
     [op |-> "compile", arg |-> <<>>],
     [op |-> "test", arg |-> <<>>]}

BuildTools == {"compile", "test"}

\* what the child of a build call writes
WritesOf(o) ==
    IF o = "compile" THEN {INFO_BUILD_SUCCESS, ErrorLines(ErrBlockLines)}
    ELSE {SUMMARY_PASSED, SUMMARY_FAILED}

\* the locals of an invocation that has not started
NoCall ==
    [pc |-> "idle", op |-> "none", arg |-> <<>>, files |-> <<>>,
     contents |-> <<>>, stdout |-> <<>>, stderr |-> <<>>,
     wrote |-> [stdout |-> <<>>, stderr |-> <<>>],
     writes |-> 0, settle |-> Pending, result |-> NoResult]

\* the texts of every call gathered in one buffer, that of the first call
GatheredInOneBuffer(i, text) == Append(calls[1].contents, text)

\* the texts of call i after readJavaFile has resolved with one more
Gathered(i, text) == Append(calls[i].contents, text)

\* the buffer exec keeps for one stream of the child of call i
Buffered(i, stream, chunk) == calls[i][stream] \o chunk

ConcurrentInit ==
    /\ BuildIdle
    /\ corpus \in {"shop", "locked", "empty"}
    /\ arg = <<>>
    /\ files = <<>>
    /\ contents = <<>>
    /\ reads = 0
    /\ runs = 0
    /\ previous = [none |-> TRUE]
    /\ containerRuntime = "null"
    /\ probe = "idle"
    /\ calls = [i \in Slots |-> NoCall]
    /\ spawned = [docker |-> 0, podman |-> 0, version |-> 0]
    /\ env = [docker |-> FALSE, podman |-> FALSE]

\* a request arrives: the operation is entered and runs to its first await,
\* glob for an extractor and execAsync for a build
Dispatch(i) ==
    /\ calls[i].pc = "idle"
    /\ \E r \in Requests :
          calls' = [calls EXCEPT ![i].op = r.op, ![i].arg = r.arg,
                                 ![i].pc = IF r.op \in BuildTools THEN "spawning"
                                           ELSE "globbing"]
    /\ UNCHANGED <<vars, corpus, arg, files, contents, reads, runs, previous,
                   containerRuntime, probe, spawned, env>>

\* glob resolves for call i; with nothing found the extractors that say so
\* return
GlobResolvesFor(i) ==
    /\ calls[i].pc = "globbing"
    /\ LET located == Locate(calls[i].op, calls[i].arg, CorpusOf(corpus))
       IN  calls' = IF calls[i].op \in NotFoundTools /\ located = <<>>
                    THEN [calls EXCEPT ![i].pc = "done",
                                       ![i].result = NotFound(calls[i].op, calls[i].arg)]
                    ELSE [calls EXCEPT ![i].pc = "scanning", ![i].files = located]
    /\ UNCHANGED <<vars, corpus, arg, files, contents, reads, runs, previous,
                   containerRuntime, probe, spawned, env>>

\* readJavaFile resolves for call i with the text of its next file
ReadResolvesFor(i) ==
    /\ calls[i].pc = "scanning"
    /\ Len(calls[i].contents) < ToRead(calls[i].op, calls[i].files)
    /\ calls[i].files[Len(calls[i].contents) + 1].readable
    /\ calls' = [calls EXCEPT ![i].contents =
                    Gathered(i, calls[i].files[Len(calls[i].contents) + 1].text)]
    /\ UNCHANGED <<vars, corpus, arg, files, contents, reads, runs, previous,
                   containerRuntime, probe, spawned, env>>

\* readJavaFile rejects for call i
ReadRejectsFor(i) ==
    /\ calls[i].pc = "scanning"
    /\ Len(calls[i].contents) < ToRead(calls[i].op, calls[i].files)
    /\ ~calls[i].files[Len(calls[i].contents) + 1].readable
    /\ calls' = [calls EXCEPT ![i].pc = "done", ![i].result = Rejection]
    /\ UNCHANGED <<vars, corpus, arg, files, contents, reads, runs, previous,
                   containerRuntime, probe, spawned, env>>

\* call i has read what it reads and runs to its return
ExtractorReturns(i) ==
    /\ calls[i].pc = "scanning"
    /\ Len(calls[i].contents) = ToRead(calls[i].op, calls[i].files)
    /\ calls' = [calls EXCEPT
                    ![i].pc = "done",
                    ![i].result = Extract(calls[i].op, calls[i].arg, calls[i].files,
                                          calls[i].contents, CorpusOf(corpus))]
    /\ UNCHANGED <<vars, corpus, arg, files, contents, reads, runs, previous,
                   containerRuntime, probe, spawned, env>>

\* the child of call i cannot be started: spawn throws or the child emits
\* 'error'
ChildFails(i) ==
    /\ calls[i].pc = "spawning"
    /\ \E s \in {Undecorated, Rejected("spawn")} :
          calls' = [calls EXCEPT ![i].pc = "settled", ![i].settle = s]
    /\ UNCHANGED <<vars, corpus, arg, files, contents, reads, runs, previous,
                   containerRuntime, probe, spawned, env>>

\* the child of call i writes to one of its streams
ChildWrites(i) ==
    /\ calls[i].pc = "spawning"
    /\ calls[i].writes < MaxWrites
    /\ \E c \in WritesOf(calls[i].op), stream \in {"stdout", "stderr"} :
          calls' = [calls EXCEPT ![i][stream] = Buffered(i, stream, c),
                                 ![i].wrote[stream] = @ \o c,
                                 ![i].writes = @ + 1]
    /\ UNCHANGED <<vars, corpus, arg, files, contents, reads, runs, previous,
                   containerRuntime, probe, spawned, env>>

\* the child of call i exits, or is killed by the timer of exec and closes
ChildEnds(i) ==
    /\ calls[i].pc = "spawning"
    /\ \E s \in {Resolved, Rejected("exit"), Rejected("timeout")} :
          calls' = [calls EXCEPT ![i].pc = "settled", ![i].settle = s]
    /\ UNCHANGED <<vars, corpus, arg, files, contents, reads, runs, previous,
                   containerRuntime, probe, spawned, env>>

\* the await of call i returns or throws, and the build runs to its return
BuildReturns(i) ==
    /\ calls[i].pc = "settled"
    /\ calls' = [calls EXCEPT
                    ![i].pc = "done",
                    ![i].result =
                        IF calls[i].op = "compile"
                        THEN ValidateMavenCompile(calls[i].settle, calls[i].stdout,
                                                  calls[i].stderr)
                        ELSE RunTestCheckpoint(calls[i].settle, calls[i].stdout,
                                               calls[i].stderr)]
    /\ UNCHANGED <<vars, corpus, arg, files, contents, reads, runs, previous,
                   containerRuntime, probe, spawned, env>>

\* the steps that resume call i at the await it waits at
Resume(i) ==
    \/ GlobResolvesFor(i)
    \/ ReadResolvesFor(i)
    \/ ReadRejectsFor(i)
    \/ ChildFails(i)
    \/ ChildEnds(i)

ConcurrentNext ==
    \E i \in Slots :
        \/ Dispatch(i)
        \/ GlobResolvesFor(i)
        \/ ReadResolvesFor(i)
        \/ ReadRejectsFor(i)
        \/ ExtractorReturns(i)
        \/ ChildFails(i)
        \/ ChildWrites(i)
        \/ ChildEnds(i)
        \/ BuildReturns(i)

ConcurrentSpec == ConcurrentInit /\ [][ConcurrentNext]_<<vars, evars>>


(***************************************************************************)
(* Tool calls side by side: properties                                     *)
(***************************************************************************)
\* the texts of the first n of the located files
TextsOf(located, n) == [k \in 1..n |-> located[k].text]

\* what the extractor o returns for the argument a when no other call runs
ExtractAlone(o, a, project) ==
    LET Returns(located) ==
            IF o \in NotFoundTools /\ located = <<>> THEN NotFound(o, a)
            ELSE IF \E k \in 1..ToRead(o, located) : ~located[k].readable
                 THEN Rejection
                 ELSE Extract(o, a, located, TextsOf(located, ToRead(o, located)),
                              project)
    IN  Returns(Locate(o, a, project))

\* what the build o returns, when no other call runs, for a child that
\* writes and ends as the child of this call did
BuildAlone(o, settled, wrote) ==
    IF o = "compile" THEN ValidateMavenCompile(settled, wrote.stdout, wrote.stderr)
    ELSE RunTestCheckpoint(settled, wrote.stdout, wrote.stderr)

Alone(call) ==
    IF call.op \in BuildTools THEN BuildAlone(call.op, call.settle, call.wrote)
    ELSE ExtractAlone(call.op, call.arg, CorpusOf(corpus))

\* the call waits for glob, for readFile or for its child
Suspended(call) ==
    \/ call.pc \in {"globbing", "spawning"}
    \/ call.pc = "scanning" /\ Len(call.contents) < ToRead(call.op, call.files)

ReturnedRepository ==
    /\ Returned
    /\ op = "analyzeRepository"
    /\ Has(result, "queryMethods")

\* where the matches of methodPattern whose name is a query method start
QueryMethodStarts(content) ==
    LET starts == Scan([i \in 1..Len(content) |-> MethodPatternAt(content, i).end], 1)
    IN  Keep(starts, {k \in 1..Len(starts) :
                         IsQueryMethod(MethodPatternAt(content, starts[k]).g2)})

\* C27: every declared method whose name begins with find, count, exists or
\* delete is counted, and it is tagged isCustomQuery exactly when the @Query
\* annotation stands on that method itself
C27_CustomQueryIffOwnAnnotation ==
    ReturnedRepository =>
        /\ result.queryMethodCount = Len(QueryMethodStarts(contents[1]))
        /\ \A k \in 1..Len(result.queryMethods) :
              result.queryMethods[k].isCustomQuery
                  <=> MatchAt(contents[1], QueryMethodStarts(contents[1])[k], AT_QUERY)


\* analyzeController has returned what it extracted from the file it read
ReturnedController ==
    /\ Returned
    /\ op = "analyzeController"
    /\ Has(result, "requiresAuth")

\* C28: requiresAuth is true exactly when the controller file contains an
\* access-control annotation that implies required authentication; a file
\* with no access-control annotation at all is not reported as requiring it
C28_RequiresAuthIffAnnotated ==
    ReturnedController =>
        /\ result.requiresAuth <=> Includes(contents[1], AT_PRE_AUTHORIZE)
        /\ ~Includes(contents[1], AT_PRE_AUTHORIZE) /\ ~Includes(contents[1], AT_PERMIT_ALL)
              => ~result.requiresAuth


(***************************************************************************)
(* runTestCheckpoint: the summary line that counts                         *)
(***************************************************************************)
\* exec has resolved for runTestCheckpoint with several summary lines in
\* what it captured, and the operation has returned
ReturnedWithSeveralSummaries ==
    /\ Done
    /\ op = "test"
    /\ settle = Resolved
    /\ Cardinality(TestsRunStarts(Output)) > 1

=============================================================================
